---- MODULE Spec2Model ----
(***************************************************************************)
(* A model of the expression subsystem of pongo2 (sblinch/pongo2):         *)
(* variable-path resolution (variable.go), the `is` tests (tests.go),      *)
(* filter binding and execution (filters.go), argument evaluation          *)
(* (args.go) and the {{ }} node with its autoescape wrapper (variable.go). *)
(*                                                                         *)
(* Host data reached through reflection is modelled by tagged records      *)
(* [k, t, v]: k is the reflect.Kind, t a type detail (a map's key type),   *)
(* v the payload.  The invalid reflect.Value (a nil interface) is Invalid. *)
(***************************************************************************)
EXTENDS Integers, Sequences, FiniteSets, TLC

VARIABLES
    \* ---- variable-path resolution (one variableResolver and its context)
    parts,      \* variableResolver.parts: the sequence of *variablePart (shared parse tree)
    parts0,     \* the same sequence as it was right after parse (history variable)
    ctx,        \* the ExecutionContext: Public, Private and the option flags
    res,        \* outcome of the last evaluation of the resolver / of the test on it
    \* ---- two concurrent renders of the parsed template
    pc,         \* per render: position inside testCall.Evaluate / resolveInterface
    tres,       \* per render: the value the render produced
    writes,     \* writes to shared state made by a render (history variable)
    tplOptions, \* Options of the *Template held in the (shared) context data
    \* ---- the test registry and one parsed test call
    tests,      \* the process-wide map tests: name -> TestFunction
    tc,         \* the parsed testCall (or NoNode)
    invoked,    \* the TestFunction run by the last testCall.Evaluate
    \* ---- the filter tables of a template set, one {{ expr }} node
    set,        \* TemplateSet: filters, filterArgs, bannedFilters, autoescape filter name
    chain,      \* nodeFilteredVariable.filterChain: the parsed filterCalls
    perr,       \* the last parseFilter call: the name it was given and its error
    out,        \* outcome of the last Evaluate / Execute of the node
    render      \* the node's resolver and the template's AutoescapeFilter option

resolveVars == <<parts, parts0, ctx, res>>
renderVars  == <<pc, tres, writes, tplOptions>>
testVars    == <<tests, tc, invoked>>
filterVars  == <<set, chain, perr, out, render>>
vars == <<parts, parts0, ctx, res, pc, tres, writes, tplOptions,
          tests, tc, invoked, set, chain, perr, out, render>>

(***************************************************************************)
(* Bounds of the model.                                                    *)
(***************************************************************************)
MaxParts == 2       \* longest variable path
MaxChain == 2       \* longest filter chain
MaxArgs  == 3       \* most arguments of one filter call
MaxInt   == 127     \* math.MaxInt / math.MaxInt64 of the model's integers
MaxStr   == 3       \* longest string converted to an integer
MaxKeys  == 3       \* most keys of an iterated map
MaxDepth == 66      \* deepest nesting of resolveInterface that is explored
MaxCalls == 3       \* most registrations of builtin filters after start-up

(***************************************************************************)
(* Host values.                                                            *)
(***************************************************************************)
Invalid        == [k |-> "invalid", t |-> "", v |-> 0]
\* a nil *Value (AsValue(nil) is a *Value of Invalid)
NilValue       == [k |-> "nilptr", t |-> "", v |-> 0]
HInt(n)        == [k |-> "int", t |-> "", v |-> n]
HUint(n)       == [k |-> "uint", t |-> "", v |-> n]            \* 0..2*MaxInt+1
HFloat(n)      == [k |-> "float", t |-> "", v |-> n]           \* n tenths
HBool(b)       == [k |-> "bool", t |-> "", v |-> b]
HStr(s)        == [k |-> "string", t |-> "", v |-> s]      \* s: sequence of bytes
HSlice(items)  == [k |-> "slice", t |-> "", v |-> items]
HMap(kt, m)    == [k |-> "map", t |-> kt, v |-> m]         \* kt: the key type
\* f: the named fields, m: the methods, emb: the anonymous embedded structs
HStruct(f, m, emb) == [k |-> "struct", t |-> "", v |-> [f |-> f, m |-> m, emb |-> emb]]
HPtr(x)        == [k |-> "ptr", t |-> "", v |-> x]
\* an element of interface type (of a []any or a map[..]any); x may be Invalid
HIface(x)      == [k |-> "iface", t |-> "", v |-> x]
\* a *Value placed in the context or returned by a function
HPValue(x, safe) == [k |-> "pvalue", t |-> "", v |-> [val |-> x, safe |-> safe]]
\* a func with nin parameters of type any; it returns ret (as *Value when
\* rk /= "plain") or, when fails, a non-nil error in its second result
HFunc(id, nin, ret, fails, rk) ==
    [k |-> "func", t |-> "",
     v |-> [id |-> id, nin |-> nin, ret |-> ret, fails |-> fails, rk |-> rk]]

IsValid(x) == x.k # "invalid"

\* strings.ToLower on the names the model uses
ToLower(s) ==
    CASE s = "N" -> "n"
      [] s = "A" -> "a"
      [] OTHER   -> s

RECURSIVE Join(_)
\* the Go string held by a sequence of one-byte strings
Join(s) == IF s = <<>> THEN "" ELSE Head(s) \o Join(Tail(s))

(***************************************************************************)
(* The parse tree of a variable path.                                      *)
(***************************************************************************)
\* expressions usable as a call argument or a subscript: an integer
\* literal, a string literal or a one-part variable
NoExpr      == [e |-> "none", n |-> 0, s |-> ""]
IntLit(n)   == [e |-> "int", n |-> n, s |-> ""]
StrLit(s)   == [e |-> "str", n |-> 0, s |-> s]
VarExpr(s)  == [e |-> "var", n |-> 0, s |-> s]

\* variablePart, as the parser builds it
Part(typ, s, i, sub, call, args) ==
    [typ |-> typ, s |-> s, i |-> i, subscript |-> sub, isNil |-> typ = "nil",
     isFunctionCall |-> call, callingArgs |-> args]
IdentPart(s)       == Part("ident", s, 0, NoExpr, FALSE, <<>>)
IntPart(i)         == Part("int", "", i, NoExpr, FALSE, <<>>)
SubscriptPart(e)   == Part("subscript", "", 0, e, FALSE, <<>>)
NilPart            == Part("nil", "", 0, NoExpr, FALSE, <<>>)
\* an element of an array literal: parseArray appends one part per expression
ArrayPart(e)       == Part("array", "", 0, e, FALSE, <<>>)
\* a following "(" args ")" marks the preceding part as a function call
Called(p, args)    == [p EXCEPT !.isFunctionCall = TRUE, !.callingArgs = args]

(***************************************************************************)
(* Outcomes.  A resolution ends with a value, a returned error or a Go     *)
(* panic; log lists, in order, the argument expressions evaluated and the  *)
(* host functions invoked on the way.                                      *)
(***************************************************************************)
RValue(v, safe, log) == [out |-> "value", val |-> v, safe |-> safe, err |-> "", log |-> log]
RError(e, log)       == [out |-> "error", val |-> Invalid, safe |-> FALSE, err |-> e, log |-> log]
RPanic(log)          == [out |-> "panic", val |-> Invalid, safe |-> FALSE, err |-> "", log |-> log]
NoResult             == [out |-> "none", val |-> Invalid, safe |-> FALSE, err |-> "", log |-> <<>>]

ArgEvent(e)  == [ev |-> "arg", who |-> IF e.e = "int" THEN "int" ELSE e.s]
CallEvent(f) == [ev |-> "call", who |-> f]

\* Value.getResolvedValue: pointers and interfaces are followed to what they hold
RECURSIVE getResolvedValue(_)
getResolvedValue(x) == IF x.k \in {"ptr", "iface"} THEN getResolvedValue(x.v) ELSE x

\* Value.Integer on the kinds of the model (a non-numeric string gives 0)
Integer(x) == LET rv == getResolvedValue(x) IN IF rv.k = "int" THEN rv.v ELSE 0

\* Value.String on the kinds the model takes a string of
String(x) ==
    LET rv == getResolvedValue(x) IN
    CASE rv.k = "string" -> Join(rv.v)
      [] rv.k = "int"    -> ToString(rv.v)
      [] OTHER           -> ""

(***************************************************************************)
(* variableResolver: lookup of the first part.                             *)
(***************************************************************************)
lookupInContext(m, key, ignoreVariableCase) ==
    IF key \in DOMAIN m
    THEN [val |-> m[key], exists |-> TRUE]
    ELSE LET hits == {k \in DOMAIN m : ToLower(k) = ToLower(key)} IN
         IF ignoreVariableCase /\ hits # {}
         THEN [val |-> m[CHOOSE k \in hits : TRUE], exists |-> TRUE]
         ELSE [val |-> Invalid, exists |-> FALSE]

\* what a mutation of lookupInitialValue that tries the public scope first
\* would do
lookupInitialValuePublicFirst(c, name) ==
    LET inPublic == lookupInContext(c.Public, name, c.IgnoreVariableCase) IN
    IF inPublic.exists
    THEN inPublic.val
    ELSE lookupInContext(c.Private, name, c.IgnoreVariableCase).val

lookupInitialValue(c, name) ==
    LET inPrivate == lookupInContext(c.Private, name, c.IgnoreVariableCase) IN
    IF inPrivate.exists
    THEN inPrivate.val
    ELSE lookupInContext(c.Public, name, c.IgnoreVariableCase).val

unpackValue(current, isSafe) ==
    IF current.k = "pvalue"
    THEN [val |-> current.v.val, safe |-> current.v.safe]
    ELSE [val |-> current, safe |-> isSafe]

(***************************************************************************)
(* One step down the path.  A step gives [val, isNil, err, panic, log].    *)
(***************************************************************************)
Step(v, log)      == [val |-> v, isNil |-> FALSE, err |-> "", panic |-> FALSE, log |-> log]
StepNil(log)      == [val |-> Invalid, isNil |-> TRUE, err |-> "", panic |-> FALSE, log |-> log]
StepErr(e, log)   == [val |-> Invalid, isNil |-> FALSE, err |-> e, panic |-> FALSE, log |-> log]
StepPanic(log)    == [val |-> Invalid, isNil |-> FALSE, err |-> "", panic |-> TRUE, log |-> log]

\* reflect.Value.MethodByName
MethodByName(current, name) ==
    LET recv == IF current.k = "ptr" THEN current.v ELSE current IN
    IF recv.k = "struct" /\ name \in DOMAIN recv.v.m THEN recv.v.m[name] ELSE Invalid

resolveIntIndex(current, part, log) ==
    CASE current.k = "string" ->
            IF part.i >= 0 /\ Len(current.v) > part.i
            THEN Step(HStr(<<current.v[part.i + 1]>>), log)
            ELSE StepNil(log)
      [] current.k = "slice" ->
            IF part.i >= 0 /\ Len(current.v) > part.i
            THEN Step(current.v[part.i + 1], log)
            ELSE StepNil(log)
      [] OTHER -> StepErr("type", log)

RECURSIVE resolveStructField(_, _, _)
resolveStructField(current, fieldName, ignoreCase) ==
    LET f    == current.v.f
        hits == {n \in DOMAIN f : ToLower(n) = ToLower(fieldName)}
        rv   == IF fieldName \in DOMAIN f THEN f[fieldName]
                ELSE IF ignoreCase /\ hits # {} THEN f[CHOOSE n \in hits : TRUE]
                ELSE Invalid
        \* the anonymous embedded structs, in field order; the first that has the field
        found == {i \in DOMAIN current.v.emb :
                     IsValid(resolveStructField(current.v.emb[i], fieldName, ignoreCase))}
    IN  IF IsValid(rv) \/ found = {} THEN rv
        ELSE resolveStructField(current.v.emb[CHOOSE i \in found : \A j \in found : i <= j],
                                fieldName, ignoreCase)

\* reflect.Value.MapIndex(reflect.ValueOf(key)) panics unless a string is
\* assignable to the map's key type
resolveMapStringKey(current, key, ignoreCase, log) ==
    IF current.t # "string"
    THEN StepPanic(log)
    ELSE LET hits == {k \in DOMAIN current.v : ToLower(k) = ToLower(key)} IN
         IF key \in DOMAIN current.v THEN Step(current.v[key], log)
         ELSE IF ignoreCase /\ hits # {} THEN Step(current.v[CHOOSE k \in hits : TRUE], log)
         ELSE Step(Invalid, log)

resolveIdentifier(current, part, ignoreCase, log) ==
    CASE current.k = "struct" -> Step(resolveStructField(current, part.s, ignoreCase), log)
      [] current.k = "map"    -> resolveMapStringKey(current, part.s, ignoreCase, log)
      [] OTHER                -> StepErr("type", log)

RECURSIVE Walk(_, _, _, _, _, _)

\* IEvaluator.Evaluate of an argument or subscript expression
EvalExpr(c, e, log) ==
    CASE e.e = "int" -> RValue(HInt(e.n), FALSE, log)
      [] e.e = "str" -> RValue(HStr(<<e.s>>), FALSE, log)
      [] OTHER       -> Walk(c, <<IdentPart(e.s)>>, 1, Invalid, FALSE, log)

\* resolveSubscript once the subscript expression has given sv
subscriptBy(c, current, sv) ==
    CASE sv.out = "panic" -> StepPanic(sv.log)
      [] sv.out = "error" -> StepErr(sv.err, sv.log)
      [] OTHER ->
         CASE current.k = "string" ->
                IF Integer(sv.val) >= 0 /\ Len(current.v) > Integer(sv.val)
                THEN Step(HStr(<<current.v[Integer(sv.val) + 1]>>), sv.log)
                ELSE StepNil(sv.log)
           [] current.k = "slice" ->
                IF Integer(sv.val) >= 0 /\ Len(current.v) > Integer(sv.val)
                THEN Step(current.v[Integer(sv.val) + 1], sv.log)
                ELSE StepNil(sv.log)
           [] current.k = "struct" ->
                Step(resolveStructField(current, String(sv.val), c.IgnoreVariableCase), sv.log)
           [] current.k = "map" ->
                IF ~IsValid(getResolvedValue(sv.val)) THEN StepNil(sv.log)
                ELSE IF sv.val.k = current.t       \* AssignableTo the key type
                THEN IF sv.val.k = "string"
                     THEN resolveMapStringKey(current, Join(sv.val.v), c.IgnoreVariableCase, sv.log)
                     ELSE Step(IF sv.val.v \in DOMAIN current.v
                               THEN current.v[sv.val.v] ELSE Invalid, sv.log)
                ELSE StepNil(sv.log)
           [] OTHER -> StepErr("type", sv.log)

resolveSubscript(c, current, part, log) ==
    subscriptBy(c, current, EvalExpr(c, part.subscript, log))

resolvePartByType(c, current, part, log) ==
    CASE part.typ = "int"       -> resolveIntIndex(current, part, log)
      [] part.typ = "ident"     -> resolveIdentifier(current, part, c.IgnoreVariableCase, log)
      [] part.typ = "subscript" -> resolveSubscript(c, current, part, log)
      [] OTHER                  -> StepPanic(log)      \* panic("unimplemented")

resolveNextPart(c, current, part, log) ==
    LET funcValue == IF part.typ = "ident" THEN MethodByName(current, part.s) ELSE Invalid IN
    IF IsValid(funcValue) THEN Step(funcValue, log)
    ELSE IF current.k = "ptr"
    THEN IF ~IsValid(current.v) THEN StepNil(log)
         ELSE resolvePartByType(c, current.v, part, log)
    ELSE resolvePartByType(c, current, part, log)

CallOk(v, safe, log) == [val |-> v, safe |-> safe, err |-> "", panic |-> FALSE, log |-> log]
CallErr(e, log)      == [val |-> Invalid, safe |-> FALSE, err |-> e, panic |-> FALSE, log |-> log]
CallPanic(log)       == [val |-> Invalid, safe |-> FALSE, err |-> "", panic |-> TRUE, log |-> log]

\* prepareCallParameters: the arguments from position k on, in slice order
RECURSIVE prepareCallParameters(_, _, _, _)
\* the loop body once argument k has given pv
prepareNext(c, currArgs, k, pv) ==
    CASE pv.out = "panic" -> CallPanic(pv.log)
      [] pv.out = "error" -> CallErr(pv.err, pv.log)
      [] OTHER            -> prepareCallParameters(c, currArgs, k + 1, pv.log)

prepareCallParameters(c, currArgs, k, log) ==
    IF k > Len(currArgs) THEN CallOk(Invalid, FALSE, log)
    ELSE prepareNext(c, currArgs, k,
                     EvalExpr(c, currArgs[k], Append(log, ArgEvent(currArgs[k]))))

\* executeCall: the host function runs; a *Value result carries its safe flag
executeCall(current, log) ==
    IF current.v.fails THEN CallErr("call", Append(log, CallEvent(current.v.id)))
    ELSE IF current.v.rk = "plain"
    THEN CallOk(current.v.ret, FALSE, Append(log, CallEvent(current.v.id)))
    ELSE CallOk(current.v.ret, current.v.rk = "safe", Append(log, CallEvent(current.v.id)))

\* handleFunctionCall once the parameters have been prepared
callPrepared(current, pr) ==
    IF pr.panic \/ pr.err # "" THEN pr ELSE executeCall(current, pr.log)

handleFunctionCall(c, current, part, log) ==
    IF part.i = 1 THEN CallOk(current, TRUE, log)
    ELSE IF current.k # "func" THEN CallErr("call", log)
    ELSE IF Len(part.callingArgs) # current.v.nin THEN CallErr("call", log)
    ELSE callPrepared(current, prepareCallParameters(c, part.callingArgs, 1, log))

\* a sandbox with one flag for every depth
permittedAnyDepth(c, idx) == ~c.DisableContextFunctions

\* the sandbox: DisableContextFunctions governs the first part (idx 0 in
\* the source, 1 here), DisableNestedFunctions every later one
permitted(c, idx) ==
    IF idx > 1 THEN ~c.DisableNestedFunctions ELSE ~c.DisableContextFunctions

\* variablePart.String returns for these kinds of part and panics for
\* every other (the nil marker of `.nil`); variableResolver.String calls it
\* for every part of the path
Printable(ps) == \A j \in DOMAIN ps : ps[j].typ \in {"int", "ident", "subscript", "array", "dict"}
\* an error whose message is formatted with vr.String()
pathError(ps, e, log) == IF Printable(ps) THEN RError(e, log) ELSE RPanic(log)
\* handleFunctionCall returns such an error: the value is not a function, or
\* the number of arguments is not the number of its parameters
notCallable(current, part) ==
    part.i # 1 /\ (current.k # "func" \/ Len(part.callingArgs) # current.v.nin)

\* resolve, the rest of the loop body once the function call has given r
afterCall(c, ps, idx, r) ==
    IF r.panic THEN RPanic(r.log)
    ELSE IF r.err # "" THEN RError(r.err, r.log)
    ELSE IF ~IsValid(r.val) THEN RValue(Invalid, FALSE, r.log)
    ELSE Walk(c, ps, idx + 1, r.val, r.safe, r.log)

\* resolve, the loop body from the unpacked value cur on
afterUnpack(c, ps, idx, cur, isSafe, log) ==
    IF ps[idx].isFunctionCall \/ cur.k = "func"
    THEN IF ~permitted(c, idx) THEN RError("sandbox", log)
         ELSE IF notCallable(cur, ps[idx]) THEN pathError(ps, "call", log)
         ELSE afterCall(c, ps, idx, handleFunctionCall(c, cur, ps[idx], log))
    ELSE IF ~IsValid(cur) THEN RValue(Invalid, FALSE, log)
    ELSE Walk(c, ps, idx + 1, cur, isSafe, log)

\* resolve, the loop body once the part has been looked up (st)
afterStep(c, ps, idx, isSafe, st) ==
    IF st.panic THEN RPanic(st.log)
    ELSE IF st.err # "" THEN pathError(ps, st.err, st.log)
    ELSE IF st.isNil \/ ~IsValid(st.val) THEN RValue(Invalid, FALSE, st.log)
    ELSE afterUnpack(c, ps, idx,
                     IF unpackValue(st.val, isSafe).val.k = "iface"
                     THEN unpackValue(st.val, isSafe).val.v
                     ELSE unpackValue(st.val, isSafe).val,
                     unpackValue(st.val, isSafe).safe, st.log)

\* variableResolver.resolve from part idx on (ctx.DeepResolve is off)
Walk(c, ps, idx, current, isSafe, log) ==
    IF idx > Len(ps) THEN RValue(current, isSafe, log)
    ELSE afterStep(c, ps, idx, isSafe,
                   IF idx = 1 THEN Step(lookupInitialValue(c, ps[idx].s), log)
                   ELSE resolveNextPart(c, current, ps[idx], log))

\* resolveArrayDefinition from part idx on, items being the elements so far
RECURSIVE resolveArrayDefinition(_, _, _, _, _)
arrayItem(c, ps, idx, items, item) ==
    IF item.out # "value" THEN item
    ELSE resolveArrayDefinition(c, ps, idx + 1,
                                Append(items, HPValue(item.val, item.safe)), item.log)
resolveArrayDefinition(c, ps, idx, items, log) ==
    IF idx > Len(ps) THEN RValue(HSlice(items), TRUE, log)
    ELSE IF ps[idx].subscript.e \notin {"int", "str", "var"}
    THEN RError("unknown variable type is given", log)
    ELSE arrayItem(c, ps, idx, items, EvalExpr(c, ps[idx].subscript, log))

\* variableResolver.resolve: an array literal with at least one part is
\* handed to resolveArrayDefinition, every other resolver walks its parts
resolve(c, ps) ==
    IF Len(ps) > 0 /\ ps[1].typ = "array"
    THEN resolveArrayDefinition(c, ps, 1, <<>>, <<>>)
    ELSE Walk(c, ps, 1, Invalid, FALSE, <<>>)

\* variableResolver.Evaluate
Evaluate(c, ps) == resolve(c, ps)

(***************************************************************************)
(* The `callable` test (testCall.Evaluate, case "callable").  The copy     *)
(* tmpvr has a slice of its own, but the slice holds the same *variablePart*)
(* pointers as vr.parts, so the assignment of i writes the shared part;    *)
(* the evaluation then runs on vr.                                         *)
(***************************************************************************)
MarkLast(ps) == [ps EXCEPT ![Len(ps)].i = 1]

CallableOf(f) ==
    CASE f.out = "panic" -> RPanic(f.log)
      [] f.out = "error" -> RValue(HBool(FALSE), FALSE, f.log)
      [] OTHER           -> RValue(HBool(getResolvedValue(f.val).k = "func"), FALSE, f.log)

CallableResult(c, ps) == CallableOf(Evaluate(c, ps))

(***************************************************************************)
(* The data the paths are resolved against.                                *)
(***************************************************************************)
F_a == HFunc("fa", 0, HInt(7), FALSE, "plain")
F_e == HFunc("fe", 0, Invalid, TRUE, "plain")              \* returns an error
F_s == HFunc("fs", 0, HStr(<<"b">>), FALSE, "safe")        \* returns a safe *Value
F_h == HFunc("fh", 2, HInt(9), FALSE, "plain")
Inner     == HStruct("e" :> HInt(2), <<>>, <<>>)
TheStruct == HStruct(("a" :> HInt(1)) @@ ("f" :> F_a), "M" :> F_a, <<Inner>>)
F_r == HFunc("fr", 0, TheStruct, FALSE, "plain")

Public ==
    ("n" :> HInt(5)) @@ ("s" :> HStr(<<"a", "b">>)) @@ ("q" :> HInt(8)) @@
    ("f" :> F_a) @@ ("g" :> F_e) @@ ("h" :> F_h) @@ ("r" :> F_r) @@ ("fs" :> F_s) @@
    ("xs" :> HSlice(<<HIface(F_a), HIface(HInt(3)), HIface(Invalid)>>)) @@
    ("fns" :> HSlice(<<HIface(F_a), HIface(F_s)>>)) @@
    ("m" :> HMap("string", ("a" :> HIface(HInt(1))) @@ ("f" :> HIface(F_a))
                           @@ ("z" :> HIface(Invalid)))) @@
    ("mi" :> HMap("int", 1 :> HStr(<<"c">>))) @@
    ("st" :> TheStruct) @@ ("p" :> HPtr(TheStruct)) @@ ("np" :> HPtr(Invalid)) @@
    ("v" :> HPValue(HStr(<<"d">>), TRUE)) @@ ("nl" :> Invalid) @@
    ("i" :> HInt(-3)) @@ ("j" :> HInt(-4)) @@ ("k" :> HInt(4))
Private == ("q" :> Invalid)

Context(ic, dcf, dnf, ae) ==
    [Public |-> Public, Private |-> Private, IgnoreVariableCase |-> ic,
     DisableContextFunctions |-> dcf, DisableNestedFunctions |-> dnf,
     DeepResolve |-> FALSE, Autoescape |-> ae]

\* the first part of a path: IDENT, possibly followed by "(" args ")"
RootParts ==
    {IdentPart(x) : x \in {"n", "s", "q", "f", "g", "h", "r", "fs", "xs", "fns", "m", "mi",
                           "st", "p", "np", "v", "nl", "N", "nope"}}
    \cup {Called(IdentPart("f"), <<>>), Called(IdentPart("f"), <<IntLit(1)>>),
          Called(IdentPart("h"), <<VarExpr("f"), IntLit(1)>>),
          Called(IdentPart("h"), <<VarExpr("g"), VarExpr("f")>>),
          Called(IdentPart("n"), <<>>), Called(IdentPart("nope"), <<VarExpr("f")>>)}
\* a later part: "." IDENT, "." NUMBER, "." nil, "[" expr "]", each possibly called
NextParts ==
    {IdentPart(x) : x \in {"a", "f", "M", "z", "A", "e", "nope"}}
    \cup {IntPart(i) : i \in {0, 1, 2, 5}}
    \cup {SubscriptPart(e) : e \in {IntLit(0), IntLit(1), IntLit(-1), StrLit("a"),
                                    StrLit("nope"), VarExpr("g"), VarExpr("nope")}}
    \cup {NilPart}
    \cup {Called(IdentPart("f"), <<>>), Called(IdentPart("M"), <<>>),
          Called(IdentPart("a"), <<>>), Called(IntPart(0), <<>>),
          Called(IdentPart("nope"), <<VarExpr("f")>>)}

RECURSIVE PathsOfLen(_)
PathsOfLen(n) ==
    IF n = 1 THEN {<<p>> : p \in RootParts}
    ELSE {Append(ps, p) : ps \in PathsOfLen(n - 1), p \in NextParts}
Paths == UNION {PathsOfLen(n) : n \in 1..MaxParts}

(***************************************************************************)
(* Options (options.go).                                                   *)
(***************************************************************************)
newOptions ==
    [TrimBlocks |-> FALSE, LStripBlocks |-> FALSE, AutoescapeFilter |-> "escape",
     DeepResolve |-> FALSE, DisableContextFunctions |-> FALSE,
     DisableNestedFunctions |-> FALSE, IgnoreVariableCase |-> FALSE,
     Translator |-> "nil"]

Renders == {1, 2}
NoNode  == [name |-> "", testFunc |-> "", negate |-> FALSE]

\* the parts of the state a specification does not use stay as they start
RenderIdle ==
    /\ pc = [t \in Renders |-> "idle"]
    /\ tres = [t \in Renders |-> NoResult]
    /\ writes = {}
    /\ tplOptions = newOptions
TestIdle ==
    /\ tests = <<>>
    /\ tc = NoNode
    /\ invoked = ""
FilterIdle ==
    /\ set = <<>>
    /\ chain = <<>>
    /\ perr = [name |-> "", err |-> ""]
    /\ out = [op |-> "none"]
    /\ render = <<>>
ResolveIdle ==
    /\ parts = <<>>
    /\ parts0 = <<>>
    /\ ctx = Context(FALSE, FALSE, FALSE, FALSE)
    /\ res = [op |-> "none", r |-> NoResult]

(***************************************************************************)
(* SpecResolve: a parsed variable path is evaluated, as a variable and as  *)
(* the term of an `is callable` test, any number of times.                 *)
(***************************************************************************)
InitResolve ==
    /\ parts \in Paths
    /\ parts0 = parts
    /\ \E ic, dcf, dnf \in BOOLEAN : ctx = Context(ic, dcf, dnf, FALSE)
    /\ res = [op |-> "none", r |-> NoResult]
    /\ RenderIdle /\ TestIdle /\ FilterIdle

\* variableResolver.Evaluate
EvaluateVariable ==
    /\ res' = [op |-> "evaluate", r |-> Evaluate(ctx, parts)]
    /\ UNCHANGED <<parts, parts0, ctx>>
    /\ UNCHANGED <<renderVars, testVars, filterVars>>

\* testCall.Evaluate of `path is callable`
EvaluateCallable ==
    /\ parts' = MarkLast(parts)
    /\ res' = [op |-> "callable", r |-> CallableResult(ctx, parts')]
    /\ UNCHANGED <<parts0, ctx>>
    /\ UNCHANGED <<renderVars, testVars, filterVars>>

NextResolve == EvaluateVariable \/ EvaluateCallable
SpecResolve == InitResolve /\ [][NextResolve]_vars

\* C29: a function reached through a path is invoked whatever the integer
\* index of the part is: fns.0 and fns.1 both give what the selected
\* function of the sequence fns returns, and the safe flag of the result is
\* the one of the function's return value.
C29_CalledAtAnyIndex ==
    (/\ res.op = "evaluate"
     /\ ~ctx.DisableNestedFunctions
     /\ parts0 \in {<<IdentPart("fns"), IntPart(0)>>, <<IdentPart("fns"), IntPart(1)>>}) =>
        LET fn == Public["fns"].v[parts0[2].i + 1].v.v IN
        /\ res.r.out = "value"
        /\ res.r.val = fn.ret
        /\ res.r.safe = (fn.rk = "safe")
        /\ \E j \in DOMAIN res.r.log : res.r.log[j] = CallEvent(fn.id)

\* C28: every path the parser accepts evaluates to a value or a returned
\* error: a path that ends with the nil marker of `.nil`, and whose parts
\* before it do not panic, does not panic.
C28_NilPartNeverPanics ==
    (/\ res.op = "evaluate"
     /\ Len(parts0) > 1
     /\ parts0[Len(parts0)].typ = "nil"
     /\ Evaluate(ctx, SubSeq(parts0, 1, Len(parts0) - 1)).out # "panic") =>
        res.r.out # "panic"

(***************************************************************************)
(* Claims about variable-path resolution (checked under SpecResolve).      *)
(***************************************************************************)
\* what the path resolved to before part idx (idx >= 2)
Before(idx) == resolve(ctx, SubSeq(parts, 1, idx - 1))
\* the value the resolver holds for part idx before any call is made
Reached(idx) ==
    IF idx = 1 THEN Step(lookupInitialValue(ctx, parts[1].s), <<>>)
    ELSE resolveNextPart(ctx, Before(idx).val, parts[idx], Before(idx).log)
Held(idx) == getResolvedValue(unpackValue(Reached(idx).val, FALSE).val)
\* part idx is reached, gives a valid value and is a call or a function
CallableAt(idx) ==
    /\ idx = 1 \/ (Before(idx).out = "value" /\ IsValid(Before(idx).val))
    /\ ~Reached(idx).panic /\ Reached(idx).err = "" /\ ~Reached(idx).isNil
    /\ IsValid(Reached(idx).val)
    /\ parts[idx].isFunctionCall \/ Held(idx).k = "func"
\* r is the sandbox error raised for part idx, no argument of the call
\* having been evaluated and the function not having been invoked
SandboxErrorAt(r, idx) ==
    /\ r.out = "error" /\ r.err = "sandbox"
    /\ r.log = Reached(idx).log
\* the evaluation stopped at part idx with the sandbox error: the path up
\* to part idx ends in it, and so does the whole path
BlockedAt(idx) ==
    /\ SandboxErrorAt(res.r, idx)
    /\ SandboxErrorAt(resolve(ctx, SubSeq(parts, 1, idx)), idx)

\* C1: evaluation never mutates the parse tree: every field of every
\* variablePart has, after any evaluation, the value it had after parse.
C1_ParseTreeImmutable == parts = parts0

\* C3: sandbox by depth.  With DisableContextFunctions a callable first
\* part ends the resolution in the sandbox error before the function or an
\* argument is evaluated; with DisableNestedFunctions the same holds for a
\* part at index >= 1; and neither flag blocks a call at the other depth.
C3_SandboxByDepth ==
    res.op = "evaluate" =>
        /\ (CallableAt(1) /\ ctx.DisableContextFunctions) => BlockedAt(1)
        /\ (CallableAt(1) /\ ~ctx.DisableContextFunctions) => ~BlockedAt(1)
        /\ \A idx \in 2..Len(parts) :
              /\ (CallableAt(idx) /\ ctx.DisableNestedFunctions) => BlockedAt(idx)
              /\ (CallableAt(idx) /\ ~ctx.DisableNestedFunctions) => ~BlockedAt(idx)

\* a nested function field is blocked by the nested flag alone, after the
\* depth-0 function was called
C3_Witness ==
    /\ res.op = "evaluate" /\ Len(parts) = 2
    /\ ~ctx.DisableContextFunctions /\ ctx.DisableNestedFunctions
    /\ CallableAt(1) /\ CallableAt(2) /\ BlockedAt(2)
    /\ res.r.log = <<CallEvent("fr")>>

\* part idx asks for something that is not there: a field or key that does
\* not exist, an index out of range or negative, or anything of a nil
\* pointer or interface
MissingAt(idx) ==
    IF idx = 1
    THEN /\ ~lookupInContext(ctx.Private, parts[1].s, ctx.IgnoreVariableCase).exists
         /\ ~lookupInContext(ctx.Public, parts[1].s, ctx.IgnoreVariableCase).exists
    ELSE /\ Before(idx).out = "value"
         /\ LET cur == Before(idx).val
                tgt == IF cur.k = "ptr" THEN cur.v ELSE cur
                p   == parts[idx]
                absent(dom, name) ==
                    /\ name \notin dom
                    /\ ctx.IgnoreVariableCase => \A k \in dom : ToLower(k) # ToLower(name)
            IN  \/ ~IsValid(getResolvedValue(cur))
                \/ /\ p.typ = "ident" /\ tgt.k = "struct"
                   /\ ~IsValid(MethodByName(cur, p.s))
                   /\ absent(DOMAIN tgt.v.f, p.s)
                   /\ \A i \in DOMAIN tgt.v.emb : absent(DOMAIN tgt.v.emb[i].v.f, p.s)
                \/ /\ p.typ = "ident" /\ tgt.k = "map"
                   /\ tgt.t = "string" => absent(DOMAIN tgt.v, p.s)
                \/ /\ p.typ = "int" /\ tgt.k \in {"string", "slice"}
                   /\ p.i < 0 \/ p.i >= Len(tgt.v)
                \/ /\ p.typ = "subscript" /\ p.subscript.e = "int"
                   /\ tgt.k \in {"string", "slice"}
                   /\ p.subscript.n < 0 \/ p.subscript.n >= Len(tgt.v)
                \/ /\ p.typ = "subscript" /\ p.subscript.e = "str"
                   /\ tgt.k = "map" /\ tgt.t = "string"
                   /\ absent(DOMAIN tgt.v, p.subscript.s)

\* C6: missing data is never an error: resolve returns a nil Value and no
\* error for a missing name, field, key or index and for a nil pointer or
\* interface on the way; it returns an error only for a type-incompatible
\* access, a sandbox violation or a failed function call.
C6_MissingDataNeverError ==
    res.op = "evaluate" =>
        /\ \A idx \in 1..Len(parts) :
              MissingAt(idx) => (res.r.out = "value" /\ ~IsValid(res.r.val))
        /\ res.r.out = "error" => res.r.err \in {"type", "sandbox", "call"}

(***************************************************************************)
(* SpecTests: the process-wide test registry (tests.go) and one parsed     *)
(* test call `x is T`.  A TestFunction is named by its identity.           *)
(***************************************************************************)
TestNames == {"odd", "callable", "mine"}
TestFuncs == {"testOdd", "testCallable", "fnG", "fnH"}
\* the names testCall.Evaluate handles itself, without a TestFunction
InlineTests == {"undefined", "defined", "escaped", "callable"}

\* the registry after the init functions have run
builtinTests ==
    ("odd" :> "testOdd") @@ ("callable" :> "testCallable") @@ ("even" :> "testEven") @@
    ("defined" :> "testDefined") @@ ("undefined" :> "testUndefined") @@
    ("escaped" :> "testEscaped") @@ ("none" :> "testNone") @@
    ("integer" :> "testInteger") @@ ("divisibleby" :> "testDivisibleby")

TestExists(name) == name \in DOMAIN tests

\* PerformTest: the function is looked up in the registry when it is called
PerformTest(name) == IF TestExists(name) THEN tests[name] ELSE "notfound"

InitTests ==
    /\ tests = builtinTests
    /\ tc = NoNode
    /\ invoked = ""
    /\ ResolveIdle /\ RenderIdle /\ FilterIdle

\* RegisterTest(name, fn); an existing name is an error and changes nothing
RegisterTest ==
    /\ \E name \in TestNames, fn \in TestFuncs :
          /\ ~TestExists(name)
          /\ tests' = [n \in DOMAIN tests \cup {name} |-> IF n = name THEN fn ELSE tests[n]]
    /\ UNCHANGED <<tc, invoked>>
    /\ UNCHANGED <<resolveVars, renderVars, filterVars>>

\* ReplaceTest(name, fn); an unknown name is an error and changes nothing
ReplaceTest ==
    /\ \E name \in TestNames, fn \in TestFuncs :
          /\ TestExists(name)
          /\ tests' = [tests EXCEPT ![name] = fn]
    /\ UNCHANGED <<tc, invoked>>
    /\ UNCHANGED <<resolveVars, renderVars, filterVars>>

\* Parser.parseTest of `x is [not] name`; an unknown name is a parse error
ParseTest ==
    /\ \E name \in TestNames, negate \in BOOLEAN :
          /\ TestExists(name)
          /\ tc' = [name |-> name, testFunc |-> tests[name], negate |-> negate]
    /\ invoked' = ""
    /\ UNCHANGED tests
    /\ UNCHANGED <<resolveVars, renderVars, filterVars>>

\* testCall.Evaluate of the parsed test call
EvaluateTest ==
    /\ tc # NoNode
    /\ invoked' = IF tc.name \in InlineTests THEN "inline" ELSE PerformTest(tc.name)
    /\ UNCHANGED <<tests, tc>>
    /\ UNCHANGED <<resolveVars, renderVars, filterVars>>

NextTests == RegisterTest \/ ReplaceTest \/ ParseTest \/ EvaluateTest
SpecTests == InitTests /\ [][NextTests]_vars

\* C4: test bindings are resolved at parse time: every evaluation of a
\* parsed test call invokes the function that was registered under its
\* name when it was parsed, whatever ReplaceTest has done since.
C4_TestBoundAtParse ==
    (invoked # "" /\ invoked # "inline") => invoked = tc.testFunc

(***************************************************************************)
(* SpecRenders: two renders of one parsed template run concurrently, each  *)
(* with an execution context of its own over the same data.  The template  *)
(* is  {% if path is callable %}..{% endif %}{{ t }}  where t is a         *)
(* *Template held in the context data.  A render step is one access to     *)
(* shared state.                                                           *)
(***************************************************************************)
\* the paths used as the term of the test: no calls, no subscripts
RenderPaths ==
    {ps \in Paths : \A i \in 1..Len(ps) :
        ~ps[i].isFunctionCall /\ ps[i].typ \in {"ident", "int"}}

\* Options.Update: every field of opt is overwritten from other
Update(opt, other) ==
    [opt EXCEPT !.TrimBlocks = other.TrimBlocks,
                !.LStripBlocks = other.LStripBlocks,
                !.AutoescapeFilter = other.AutoescapeFilter,
                !.DeepResolve = other.DeepResolve,
                !.DisableContextFunctions = other.DisableContextFunctions,
                !.DisableNestedFunctions = other.DisableNestedFunctions,
                !.IgnoreVariableCase = other.IgnoreVariableCase,
                !.Translator = other.Translator]

\* &Options{DeepResolve: ctx.DeepResolve, AutoescapeFilter:
\* ctx.template.Options.AutoescapeFilter}: the other fields have their zero
\* values; the rendered template has the default options
deepOptions(c) ==
    [TrimBlocks |-> FALSE, LStripBlocks |-> FALSE,
     AutoescapeFilter |-> newOptions.AutoescapeFilter,
     DeepResolve |-> c.DeepResolve, DisableContextFunctions |-> FALSE,
     DisableNestedFunctions |-> FALSE, IgnoreVariableCase |-> FALSE,
     Translator |-> "nil"]

NoRender == [callable |-> NoResult, nested |-> "none"]

InitRenders ==
    /\ parts \in RenderPaths
    /\ parts0 = parts
    /\ \E ic, deep \in BOOLEAN :
          ctx = [Context(ic, FALSE, FALSE, FALSE) EXCEPT !.DeepResolve = deep]
    /\ res = [op |-> "none", r |-> NoResult]
    /\ pc = [t \in Renders |-> "idle"]
    /\ tres = [t \in Renders |-> NoRender]
    /\ writes = {}
    /\ \E dcf \in BOOLEAN, af \in {"escape", "myescape"} :
          tplOptions = [newOptions EXCEPT !.DisableContextFunctions = dcf,
                                          !.AutoescapeFilter = af]
    /\ TestIdle /\ FilterIdle

\* testCall.Evaluate, case "callable": tmpvr.parts[len-1].i = 1
RenderMark(t) ==
    /\ pc[t] = "idle"
    /\ parts' = MarkLast(parts)
    /\ writes' = writes \cup {[by |-> t, to |-> "variablePart.i"]}
    /\ pc' = [pc EXCEPT ![t] = "marked"]
    /\ UNCHANGED <<parts0, ctx, res, tres, tplOptions>>
    /\ UNCHANGED <<testVars, filterVars>>

\* testCall.Evaluate, case "callable": vr.Evaluate(ctx) and the kind test
RenderTest(t) ==
    /\ pc[t] = "marked"
    /\ tres' = [tres EXCEPT ![t].callable = CallableResult(ctx, parts)]
    /\ pc' = [pc EXCEPT ![t] = "tested"]
    /\ UNCHANGED <<parts, parts0, ctx, res, writes, tplOptions>>
    /\ UNCHANGED <<testVars, filterVars>>

\* resolveInterface, case *Template: it.Options.Update(...)
RenderUpdate(t) ==
    /\ pc[t] = "tested" /\ ctx.DeepResolve
    /\ tplOptions' = Update(tplOptions, deepOptions(ctx))
    /\ writes' = writes \cup {[by |-> t, to |-> "Template.Options"]}
    /\ pc' = [pc EXCEPT ![t] = "updated"]
    /\ UNCHANGED <<parts, parts0, ctx, res, tres>>
    /\ UNCHANGED <<testVars, filterVars>>

\* resolveInterface, case *Template: it.Evaluate(ctx.Public) runs under the
\* Options the template holds at that moment
RenderNested(t) ==
    /\ pc[t] = "updated"
    /\ tres' = [tres EXCEPT ![t].nested = tplOptions]
    /\ pc' = [pc EXCEPT ![t] = "done"]
    /\ UNCHANGED <<parts, parts0, ctx, res, writes, tplOptions>>
    /\ UNCHANGED <<testVars, filterVars>>

\* without deep resolution {{ t }} prints the pointer and touches nothing
RenderPlain(t) ==
    /\ pc[t] = "tested" /\ ~ctx.DeepResolve
    /\ pc' = [pc EXCEPT ![t] = "done"]
    /\ UNCHANGED <<parts, parts0, ctx, res, tres, writes, tplOptions>>
    /\ UNCHANGED <<testVars, filterVars>>

NextRenders ==
    \/ \E t \in Renders : RenderMark(t)
    \/ \E t \in Renders : RenderTest(t)
    \/ \E t \in Renders : RenderUpdate(t)
    \/ \E t \in Renders : RenderNested(t)
    \/ \E t \in Renders : RenderPlain(t)
SpecRenders == InitRenders /\ [][NextRenders]_vars

\* what one render of the freshly parsed template produces when run alone
AloneRender ==
    [callable |-> CallableResult(ctx, MarkLast(parts0)),
     nested   |-> IF ctx.DeepResolve THEN Update(newOptions, deepOptions(ctx))
                  ELSE "none"]

\* C2: two concurrent renders of one parsed template write to no state
\* they share, and each produces the result it produces when run alone.
C2_RendersShareNothing ==
    /\ writes = {}
    /\ \A t \in Renders : pc[t] = "done" => tres[t] = AloneRender

\* the second half of C2 alone: the results are those of a render run alone
RendersAgreeWithAlone ==
    \A t \in Renders : pc[t] = "done" => tres[t] = AloneRender

\* C24: when the deep resolver evaluates a template (a *Template value or
\* a context string parsed as one), the Options of that template keep the
\* DisableContextFunctions, DisableNestedFunctions and IgnoreVariableCase
\* values in force for the render; only DeepResolve and AutoescapeFilter
\* are overridden.
C24_SandboxSurvivesReentry ==
    \A t \in Renders :
        (pc[t] = "done" /\ ctx.DeepResolve) =>
            /\ tres[t].nested.DisableContextFunctions = ctx.DisableContextFunctions
            /\ tres[t].nested.DisableNestedFunctions = ctx.DisableNestedFunctions
            /\ tres[t].nested.IgnoreVariableCase = ctx.IgnoreVariableCase

(***************************************************************************)
(* Filters (filters.go).  A filter function is named by its identity; what *)
(* the functions of the model do to a value is listed in RunFilter.  The   *)
(* builtin `safe` and `escape` functions behave as the specification says; *)
(* the others stand for functions a host registers.                        *)
(***************************************************************************)
FilterEvent(fn) == [ev |-> "filter", who |-> fn]
EscapeEvent(fn) == [ev |-> "autoescape", who |-> fn]

\* the bytes of Value.String() of a string or an integer
Chars(v) ==
    LET rv == getResolvedValue(v) IN
    CASE rv.k = "string" -> rv.v
      [] rv.k = "int"    -> <<ToString(rv.v)>>
      [] OTHER           -> <<>>

\* the `safe` filter: the same value, marked safe
filterSafe(in) == [val |-> in.val, safe |-> TRUE, err |-> ""]
\* the `escape` filter: the escaped string, marked safe
filterEscape(in) == [val |-> HStr(<<"&">> \o Chars(in.val)), safe |-> TRUE, err |-> ""]

\* FilterFunction / FilterArgsFunction: the functions of the model applied
\* to in = [val, safe]
RunFilter(fn, in) ==
    CASE fn = "fnSafe"   -> filterSafe(in)
      [] fn \in {"fnEscape", "faEscape"} -> filterEscape(in)
      [] fn = "fnUpper"  -> [val |-> HStr(Append(Chars(in.val), "U")), safe |-> FALSE, err |-> ""]
      [] fn = "fnBoth"   -> [val |-> HStr(Append(Chars(in.val), "1")), safe |-> FALSE, err |-> ""]
      [] fn = "faBoth"   -> [val |-> HStr(Append(Chars(in.val), "2")), safe |-> FALSE, err |-> ""]
      [] fn = "faJoin"   -> [val |-> HStr(Append(Chars(in.val), "J")), safe |-> FALSE, err |-> ""]
      [] OTHER           -> [val |-> Invalid, safe |-> FALSE, err |-> "filter"]

\* The tables of a template set.  `both` is in both tables (an alias made
\* by AliasBuiltinFilter over an args-form name), `banned` is a registered
\* filter on the ban list, `ghost` is on the ban list only.  esc says where
\* the name `escape` is registered: "filters", "args" (re-registered in args
\* form) or "none".
TemplateSet(esc) ==
    [filters |->
        ("safe" :> "fnSafe") @@ ("upper" :> "fnUpper") @@
        ("fail" :> "fnFail") @@ ("both" :> "fnBoth") @@ ("banned" :> "fnUpper") @@
        (IF esc = "filters" THEN "escape" :> "fnEscape" ELSE <<>>),
     filterArgs |->
        ("join" :> "faJoin") @@ ("both" :> "faBoth") @@
        (IF esc = "args" THEN "escape" :> "faEscape" ELSE <<>>),
     bannedFilters |-> {"banned", "ghost"}]

FilterNames == {"safe", "escape", "upper", "fail", "both", "banned",
                "ghost", "join", "nope"}

\* a filterCall before a function is bound
NoFilterCall ==
    [name |-> "", parameter |-> NoExpr, filterFunc |-> "",
     parameters |-> <<>>, namedParameters |-> <<>>, filterArgsFunc |-> "",
     source |-> <<>>]

\* a binding that asks the args-form table first
bindFilterArgsFirst(s, name) ==
    IF name \in s.bannedFilters THEN [err |-> "banned", fc |-> NoFilterCall]
    ELSE IF name \in DOMAIN s.filterArgs
    THEN [err |-> "", fc |-> [NoFilterCall EXCEPT !.name = name,
                                                  !.filterArgsFunc = s.filterArgs[name]]]
    ELSE IF name \in DOMAIN s.filters
    THEN [err |-> "", fc |-> [NoFilterCall EXCEPT !.name = name,
                                                  !.filterFunc = s.filters[name]]]
    ELSE [err |-> "notexist", fc |-> NoFilterCall]

\* parseFilter, the binding: ban list, then set.filters, then set.filterArgs
bindFilter(s, name) ==
    IF name \in s.bannedFilters THEN [err |-> "banned", fc |-> NoFilterCall]
    ELSE IF name \in DOMAIN s.filters
    THEN [err |-> "", fc |-> [NoFilterCall EXCEPT !.name = name,
                                                  !.filterFunc = s.filters[name]]]
    ELSE IF name \in DOMAIN s.filterArgs
    THEN [err |-> "", fc |-> [NoFilterCall EXCEPT !.name = name,
                                                  !.filterArgsFunc = s.filterArgs[name]]]
    ELSE [err |-> "notexist", fc |-> NoFilterCall]

\* an argument as written: key is "" for a positional argument
Arg(key, e) == [key |-> key, e |-> e]

\* parseArgs: the positional arguments in order, the named ones in a map
\* (a repeated key keeps the last expression)
positionalOf(items) ==
    LET pos == SelectSeq(items, LAMBDA it : it.key = "") IN
    [i \in 1..Len(pos) |-> pos[i].e]
namedOf(items) ==
    [k \in {items[i].key : i \in {j \in 1..Len(items) : items[j].key # ""}} |->
        items[CHOOSE i \in 1..Len(items) :
                 /\ items[i].key = k
                 /\ \A j \in 1..Len(items) : items[j].key = k => j <= i].e]

\* parseFilter after the binding: the argument forms
\* form "none": IDENT;  "colon": IDENT ":" items[1];  "paren": IDENT "(" items ")"
attachArgs(b, form, items) ==
    IF b.err # "" THEN b
    ELSE IF form = "none" THEN b
    ELSE IF form = "colon"
    THEN IF b.fc.filterFunc # ""
         THEN [b EXCEPT !.fc.parameter = items[1].e, !.fc.source = items]
         ELSE [b EXCEPT !.fc.parameters = <<items[1].e>>, !.fc.source = items]
    ELSE IF b.fc.filterArgsFunc # ""
    THEN [b EXCEPT !.fc.parameters = positionalOf(items),
                   !.fc.namedParameters = namedOf(items), !.fc.source = items]
    ELSE IF Len(positionalOf(items)) + Cardinality(DOMAIN namedOf(items)) > 1
    THEN [err |-> "toomany", fc |-> NoFilterCall]
    ELSE [b EXCEPT !.fc.parameters = positionalOf(items),
                   !.fc.namedParameters = namedOf(items),
                   !.fc.parameter =
                       IF Len(positionalOf(items)) > 0 THEN positionalOf(items)[1]
                       ELSE IF DOMAIN namedOf(items) # {}
                       THEN namedOf(items)[CHOOSE k \in DOMAIN namedOf(items) : TRUE]
                       ELSE NoExpr,
                   !.fc.source = items]

parseFilter(s, name, form, items) == attachArgs(bindFilter(s, name), form, items)

(***************************************************************************)
(* Argument evaluation (args.go) and filterCall.Execute.                   *)
(***************************************************************************)
\* the loop of evaluateArgs over the expressions es from position k on
RECURSIVE evaluateParams(_, _, _, _)
evaluateParamsNext(c, es, k, pv) ==
    CASE pv.out = "panic" -> CallPanic(pv.log)
      [] pv.out = "error" -> CallErr(pv.err, pv.log)
      [] OTHER            -> evaluateParams(c, es, k + 1, pv.log)
evaluateParams(c, es, k, log) ==
    IF k > Len(es) THEN CallOk(Invalid, FALSE, log)
    ELSE evaluateParamsNext(c, es, k, EvalExpr(c, es[k], Append(log, ArgEvent(es[k]))))

\* the named parameters in the order the map iteration ord yields them
inMapOrder(namedParameters, ord) ==
    IF Cardinality(DOMAIN namedParameters) < 2
    THEN [i \in 1..Cardinality(DOMAIN namedParameters) |->
             namedParameters[CHOOSE k \in DOMAIN namedParameters : TRUE]]
    ELSE LET ks == SelectSeq(ord, LAMBDA k : k \in DOMAIN namedParameters) IN
         [i \in 1..Len(ks) |-> namedParameters[ks[i]]]

\* evaluateArgs: the positional parameters in slice order, then the named
\* ones in the order of a range over the map
evaluateArgs(c, parameters, namedParameters, ord, log) ==
    evaluateParams(c, parameters \o inMapOrder(namedParameters, ord), 1, log)

\* the outcome of a filter function that returned r
filtered(r, log) ==
    IF r.err # "" THEN RError(r.err, log) ELSE RValue(r.val, r.safe, log)

\* filterCall.Execute once the parameters have given ar: call fn on v
executeWith(fn, v, ar) ==
    IF ar.panic THEN RPanic(ar.log)
    ELSE IF ar.err # "" THEN RError(ar.err, ar.log)
    ELSE IF fn = "" THEN RPanic(ar.log)             \* a call of a nil function
    ELSE filtered(RunFilter(fn, v), Append(ar.log, FilterEvent(fn)))

\* filterCall.Execute
filterCallExecute(c, fc, v, ord) ==
    IF fc.filterFunc # ""
    THEN executeWith(fc.filterFunc, v,
                     IF fc.parameter # NoExpr
                     THEN evaluateParams(c, <<fc.parameter>>, 1, v.log)
                     ELSE CallOk(Invalid, FALSE, v.log))
    ELSE executeWith(fc.filterArgsFunc, v,
                     evaluateArgs(c, fc.parameters, fc.namedParameters, ord, v.log))

(***************************************************************************)
(* nodeFilteredVariable and nodeVariable (variable.go).                    *)
(***************************************************************************)
\* a test of the last filter only
FilterAppliedLast(fchain, name) ==
    Len(fchain) > 0 /\ fchain[Len(fchain)].name = name

\* nodeFilteredVariable.FilterApplied
FilterApplied(fchain, name) ==
    \E i \in 1..Len(fchain) : fchain[i].name = name

\* the map order of the k-th call; a map of fewer than two entries has one
orderAt(ords, k) == IF k \in DOMAIN ords THEN ords[k] ELSE <<>>

\* a chain applied from its last filter to its first
RECURSIVE applyChainReversed(_, _, _, _, _)
applyChainReversed(c, fchain, k, cur, ords) ==
    IF cur.out # "value" THEN cur
    ELSE IF k > Len(fchain) THEN cur
    ELSE applyChainReversed(c, fchain, k + 1,
             filterCallExecute(c, fchain[Len(fchain) + 1 - k], cur,
                               orderAt(ords, Len(fchain) + 1 - k)), ords)

\* nodeFilteredVariable.Evaluate, the loop over the chain from filter k on;
\* cur is the outcome so far
RECURSIVE applyChain(_, _, _, _, _)
applyChain(c, fchain, k, cur, ords) ==
    IF cur.out # "value" THEN cur
    ELSE IF k > Len(fchain) THEN cur
    ELSE applyChain(c, fchain, k + 1,
                    filterCallExecute(c, fchain[k], cur, orderAt(ords, k)), ords)

\* nodeFilteredVariable.Evaluate
filteredEvaluate(c, resolver, fchain, ords) ==
    applyChain(c, fchain, 1, EvalExpr(c, resolver, <<>>), ords)

\* Value.IsString
IsString(v) == getResolvedValue(v).k = "string"

\* ctx.template.set.filters[ctx.template.Options.AutoescapeFilter]; "" is nil
escapeFnOf(s, name) == IF name \in DOMAIN s.filters THEN s.filters[name] ELSE ""

\* nodeVariable.Evaluate once the expression has given value
nodeVariableEvaluate(c, s, name, fchain, value) ==
    IF value.out # "value" THEN value
    ELSE IF /\ ~FilterApplied(fchain, "safe") /\ ~value.safe
            /\ IsString(value.val) /\ c.Autoescape
            /\ escapeFnOf(s, name) # ""
    THEN filtered(RunFilter(escapeFnOf(s, name), value),
                  Append(value.log, EscapeEvent(escapeFnOf(s, name))))
    ELSE value

\* nodeVariable.Execute once the expression has given value: the outcome
\* and what was written
written(r) == [r |-> r, written |-> IF r.out = "value" THEN String(r.val) ELSE "none"]
nodeVariableExecute(c, s, name, fchain, value) ==
    IF value.out # "value" THEN written(value)
    ELSE IF /\ ~FilterApplied(fchain, "safe") /\ ~value.safe
            /\ IsString(value.val) /\ c.Autoescape
            /\ escapeFnOf(s, name) # ""
    THEN written(filtered(RunFilter(escapeFnOf(s, name), value),
                          Append(value.log, EscapeEvent(escapeFnOf(s, name)))))
    ELSE written(value)

(***************************************************************************)
(* SpecFilters: the filters of one {{ resolver|f1|f2.. }} node are parsed  *)
(* one by one against the tables of the template set; the node is then     *)
(* evaluated or executed, any number of times.                             *)
(***************************************************************************)
ArgVars == <<"n", "s", "q", "xs", "m">>
ArgKeys == <<"a", "b", "c">>
ArgAt(i) == VarExpr(ArgVars[((i - 1) % Len(ArgVars)) + 1])
KeyAt(i) == ArgKeys[((i - 1) % Len(ArgKeys)) + 1]

\* a=e1, e2, b=e3, e4, ..: n arguments, named and positional in turn
MixedArgs(n) ==
    [i \in 1..n |-> IF i % 2 = 1 THEN Arg(KeyAt((i + 1) \div 2), ArgAt(i))
                    ELSE Arg("", ArgAt(i))]
\* e1, e2, ..: n positional arguments
PositionalArgs(n) == [i \in 1..n |-> Arg("", ArgAt(i))]
\* e1, g: the second argument is a function that returns an error
FailingArgs == <<Arg("", ArgAt(1)), Arg("", VarExpr("g")), Arg("", ArgAt(3))>>

\* the filter calls a template is written with: [name, form, items]
FilterSyntax(name, form, items) == [name |-> name, form |-> form, items |-> items]
FilterCalls ==
    {FilterSyntax(n, "none", <<>>) : n \in FilterNames}
    \cup {FilterSyntax("upper", "colon", PositionalArgs(1)),
          FilterSyntax("upper", "paren", MixedArgs(1)),
          FilterSyntax("upper", "paren", PositionalArgs(2)),
          FilterSyntax("join", "colon", PositionalArgs(1)),
          FilterSyntax("join", "paren", FailingArgs),
          FilterSyntax("join", "paren", MixedArgs(MaxArgs))}

\* the orders in which a range over a map of named parameters can run
NamedKeys == {MixedArgs(MaxArgs)[i].key : i \in 1..MaxArgs} \ {""}
KeyOrders ==
    {o \in [1..Cardinality(NamedKeys) -> NamedKeys] :
        \A i, j \in 1..Cardinality(NamedKeys) : o[i] = o[j] => i = j}

\* the calls of a chain whose named parameters can be ranged over in more
\* than one order
Unordered(fchain) ==
    {k \in 1..Len(fchain) : Cardinality(DOMAIN fchain[k].namedParameters) >= 2}

InitFilters ==
    /\ \E cfg \in {<<"filters", "escape">>, <<"args", "escape">>,
                   <<"none", "escape">>, <<"filters", "upper">>},
          e \in {"s", "v", "n", "g"} :
          /\ set = TemplateSet(cfg[1])
          /\ render = [AutoescapeFilter |-> cfg[2], resolver |-> VarExpr(e)]
    /\ \E ae \in BOOLEAN : ctx = Context(FALSE, FALSE, FALSE, ae)
    /\ chain = <<>>
    /\ perr = [name |-> "", err |-> ""]
    /\ out = [op |-> "none"]
    /\ parts = <<>> /\ parts0 = <<>>
    /\ res = [op |-> "none", r |-> NoResult]
    /\ RenderIdle /\ TestIdle

\* the outcome of parseFilter as the parser keeps it
parsed(name, p) ==
    /\ perr' = [name |-> name, err |-> p.err]
    /\ chain' = IF p.err = "" THEN Append(chain, p.fc) ELSE chain

\* Parser.parseFilter for the next filter of the node; an error ends the
\* parse and there is no template to render
ParseFilter ==
    /\ Len(chain) < MaxChain /\ perr.err = "" /\ out.op = "none"
    /\ \E f \in FilterCalls : parsed(f.name, parseFilter(set, f.name, f.form, f.items))
    /\ UNCHANGED <<set, out, render>>
    /\ UNCHANGED <<resolveVars, renderVars, testVars>>

\* the node's outcome once the expression has given value
evaluated(value) ==
    out' = [op |-> "evaluate", expr |-> value, written |-> "none",
            r |-> nodeVariableEvaluate(ctx, set, render.AutoescapeFilter, chain, value)]
executed(value, w) ==
    out' = [op |-> "execute", expr |-> value, written |-> w.written, r |-> w.r]

\* nodeVariable.Evaluate
EvaluateNode ==
    /\ perr.err = ""
    /\ \E ords \in [Unordered(chain) -> KeyOrders] :
          evaluated(filteredEvaluate(ctx, render.resolver, chain, ords))
    /\ UNCHANGED <<set, chain, perr, render>>
    /\ UNCHANGED <<resolveVars, renderVars, testVars>>

\* nodeVariable.Execute
ExecuteNode ==
    /\ perr.err = ""
    /\ \E ords \in [Unordered(chain) -> KeyOrders] :
          executed(filteredEvaluate(ctx, render.resolver, chain, ords),
                   nodeVariableExecute(ctx, set, render.AutoescapeFilter, chain,
                       filteredEvaluate(ctx, render.resolver, chain, ords)))
    /\ UNCHANGED <<set, chain, perr, render>>
    /\ UNCHANGED <<resolveVars, renderVars, testVars>>

NextFilters == ParseFilter \/ EvaluateNode \/ ExecuteNode
SpecFilters == InitFilters /\ [][NextFilters]_vars

(***************************************************************************)
(* Claims about filters and the {{ }} node (checked under SpecFilters).    *)
(***************************************************************************)
\* the function a parsed filterCall is bound to
BoundOf(fc) == IF fc.filterFunc # "" THEN fc.filterFunc ELSE fc.filterArgsFunc
BoundChain == [i \in 1..Len(chain) |-> BoundOf(chain[i])]
\* the filter functions called, and the argument expressions evaluated, by
\* the last evaluation of the expression, in order
CalledFilters ==
    LET es == SelectSeq(out.expr.log, LAMBDA e : e.ev = "filter") IN
    [i \in 1..Len(es) |-> es[i].who]
EvaluatedArgs == SelectSeq(out.expr.log, LAMBDA e : e.ev = "arg")
Rendered == out.op # "none"
\* the node applied the autoescape filter to the value of the expression
Escaped ==
    /\ Len(out.r.log) = Len(out.expr.log) + 1
    /\ out.r.log[Len(out.r.log)].ev = "autoescape"
SafeInChain == \E i \in 1..Len(chain) : chain[i].name = "safe"

\* C5: parseFilter binds by ban list, then set.filters, then
\* set.filterArgs, else fails; a parsed filterCall has exactly one of its
\* two functions set; and every filter of a chain that ran to its end was
\* run by calling the function bound to it.
C5_BindingOrder ==
    /\ perr.name # "" =>
        /\ perr.name \in set.bannedFilters => perr.err = "banned"
        /\ (perr.name \notin set.bannedFilters /\ perr.name \in DOMAIN set.filters) =>
              /\ perr.err \in {"", "toomany"}
              /\ perr.err = "" =>
                    /\ chain[Len(chain)].name = perr.name
                    /\ chain[Len(chain)].filterFunc = set.filters[perr.name]
                    /\ chain[Len(chain)].filterArgsFunc = ""
        /\ (/\ perr.name \notin set.bannedFilters
            /\ perr.name \notin DOMAIN set.filters
            /\ perr.name \in DOMAIN set.filterArgs) =>
              /\ perr.err = ""
              /\ chain[Len(chain)].name = perr.name
              /\ chain[Len(chain)].filterArgsFunc = set.filterArgs[perr.name]
              /\ chain[Len(chain)].filterFunc = ""
        /\ (/\ perr.name \notin set.bannedFilters
            /\ perr.name \notin DOMAIN set.filters
            /\ perr.name \notin DOMAIN set.filterArgs) => perr.err = "notexist"
    /\ \A i \in 1..Len(chain) :
          (chain[i].filterFunc = "") # (chain[i].filterArgsFunc = "")
    /\ (Rendered /\ out.expr.out = "value") =>
          CalledFilters = [i \in 1..Len(chain) |->
                              IF chain[i].name \in DOMAIN set.filters
                              THEN set.filters[chain[i].name]
                              ELSE set.filterArgs[chain[i].name]]

\* a name in both tables was parsed and the node executed with it
C5_Witness ==
    /\ perr.name = "both" /\ perr.err = ""
    /\ chain[Len(chain)].filterFunc = "fnBoth"
    /\ out.op = "execute" /\ out.expr.out = "value"
    /\ CalledFilters[Len(chain)] = "fnBoth"

\* C7: the node passes the value of its expression through the filter
\* named by AutoescapeFilter exactly when ctx.Autoescape is on, no filter
\* named `safe` is in the expression, the value is not safe and it is a
\* string; otherwise the value is emitted unchanged; Evaluate and Execute
\* of the node agree.
C7_AutoescapeExactlyWhen ==
    (Rendered /\ out.expr.out = "value") =>
        /\ Escaped <=> (/\ ctx.Autoescape /\ ~SafeInChain
                        /\ ~out.expr.safe /\ getResolvedValue(out.expr.val).k = "string")
        /\ ~Escaped => out.r = out.expr
        /\ out.r = nodeVariableEvaluate(ctx, set, render.AutoescapeFilter, chain, out.expr)
        /\ (out.op = "execute" /\ out.r.out = "value") => out.written = String(out.r.val)

\* C8 as stated: a filter named `safe` anywhere in the chain gives a Value
\* with the safe flag set, and the node does not autoescape it.
C8_SafeAnywhereSetsFlag ==
    (Rendered /\ out.expr.out = "value" /\ SafeInChain) =>
        out.expr.safe /\ ~Escaped

\* C8 as amended: a filter named `safe` anywhere in the chain keeps the
\* node from applying the autoescape filter: the chain's value is emitted
\* as it is.
C8_SafeAnywhereSkipsAutoescape ==
    (Rendered /\ out.expr.out = "value" /\ SafeInChain) =>
        /\ ~Escaped /\ out.r = out.expr
        /\ out.op = "execute" => out.written = String(out.expr.val)

\* x|safe|upper of an unsafe string, autoescape on and its filter there
C8_Witness ==
    /\ out.op = "execute" /\ out.expr.out = "value"
    /\ Len(chain) = 2 /\ chain[1].name = "safe" /\ chain[2].name = "upper"
    /\ ctx.Autoescape /\ render.AutoescapeFilter \in DOMAIN set.filters
    /\ ~out.expr.safe /\ getResolvedValue(out.expr.val).k = "string"

\* the value of the resolver followed by the first k filters of the chain
RECURSIVE Composed(_)
Composed(k) ==
    IF k = 0 THEN EvalExpr(ctx, render.resolver, <<>>)
    ELSE RunFilter(BoundOf(chain[k]), Composed(k - 1))

\* C9: filters apply left to right: the value of x|f1|..|fn is
\* fn(..f1(x)); the filters are called in chain order; and once the
\* resolver or a filter has failed no later filter is called and the error
\* comes with no value.
C9_ChainLeftToRight ==
    Rendered =>
        /\ \E n \in 0..Len(chain) :
              /\ CalledFilters = SubSeq(BoundChain, 1, n)
              /\ n < Len(chain) => out.expr.out = "error"
        /\ out.expr.out = "value" =>
              /\ out.expr.val = Composed(Len(chain)).val
              /\ out.expr.safe = Composed(Len(chain)).safe
        /\ out.expr.out = "error" => out.expr.val = Invalid
        /\ EvalExpr(ctx, render.resolver, <<>>).out = "error" =>
              (out.expr.out = "error" /\ CalledFilters = <<>>)

\* a chain of two different filters gave a value
C9_Witness ==
    /\ out.op = "evaluate" /\ out.expr.out = "value"
    /\ Len(chain) = 2 /\ BoundOf(chain[1]) # BoundOf(chain[2])
    /\ CalledFilters = BoundChain

\* the argument expressions of the chain as written, call by call
RECURSIVE SourceArgs(_)
SourceArgs(k) ==
    IF k = 0 THEN <<>>
    ELSE SourceArgs(k - 1) \o
         [i \in 1..Len(chain[k].source) |-> ArgEvent(chain[k].source[i].e)]

\* C10: the argument expressions of a call are evaluated left to right in
\* source order, positional and named alike.
C10_ArgsInSourceOrder ==
    Rendered =>
        \E n \in 0..Len(SourceArgs(Len(chain))) :
            EvaluatedArgs = SubSeq(SourceArgs(Len(chain)), 1, n)

(***************************************************************************)
(* The `is` evaluator (testCall.Evaluate, tests.go) and the builtin tests. *)
(***************************************************************************)
\* Go's integer division and remainder truncate toward zero
GoQuo(a, b) ==
    IF (a >= 0) = (b >= 0)
    THEN (IF a >= 0 THEN a ELSE -a) \div (IF b >= 0 THEN b ELSE -b)
    ELSE -((IF a >= 0 THEN a ELSE -a) \div (IF b >= 0 THEN b ELSE -b))
GoRem(a, b) == a - b * GoQuo(a, b)

\* Value.IsNil, Value.IsInteger
IsNil(x)     == ~IsValid(getResolvedValue(x))
IsInteger(x) == getResolvedValue(x).k = "int"

TestPassed(b) == [passed |-> b, err |-> ""]
TestFailed    == [passed |-> FALSE, err |-> "argcount"]
\* ExpectArgs: the number of positional arguments is in min..max
ExpectArgs(min, max, argLen) == ~(argLen < min \/ (max # -1 /\ argLen > max))

\* the builtin TestFunctions of the model applied to the value in and the
\* positional arguments args (a sequence of host values)
RunTest(fn, in, args) ==
    CASE fn = "testDefined"   -> TestPassed(~IsNil(in))
      [] fn = "testUndefined" -> TestPassed(IsNil(in))
      [] fn = "testCallable"  -> TestPassed(FALSE)
      [] fn = "testEscaped"   ->
            IF ExpectArgs(0, 0, Len(args)) THEN TestPassed(IsNil(in)) ELSE TestFailed
      [] fn = "testNone"      ->
            IF ExpectArgs(0, 0, Len(args)) THEN TestPassed(IsNil(in)) ELSE TestFailed
      [] fn = "testInteger"   ->
            IF ExpectArgs(0, 0, Len(args)) THEN TestPassed(IsInteger(in)) ELSE TestFailed
      [] fn = "testOdd"       ->
            IF ExpectArgs(0, 0, Len(args))
            THEN TestPassed(GoRem(Integer(in), 2) = 1) ELSE TestFailed
      [] fn = "testEven"      ->
            IF ExpectArgs(0, 0, Len(args))
            THEN TestPassed(GoRem(Integer(in), 2) = 0) ELSE TestFailed
      [] fn = "testDivisibleby" ->
            IF ~ExpectArgs(1, 1, Len(args)) THEN TestFailed
            ELSE IF Integer(args[1]) = 0 THEN TestPassed(FALSE)
            ELSE TestPassed(GoRem(Integer(in), Integer(args[1])) = 0)
      [] OTHER -> TestPassed(FALSE)

\* the values of the positional parameters once they have been evaluated
argValues(c, parameters) ==
    [i \in 1..Len(parameters) |-> EvalExpr(c, parameters[i], <<>>).val]

\* nodeFilteredVariable.Evaluate of a term: the resolver, then its filters
termEvaluate(c, ps, fchain) == applyChain(c, fchain, 1, Evaluate(c, ps), <<>>)

\* testCall.Evaluate, the end: negate if `not` was written
negated(t, passed, log) ==
    RValue(HBool(IF t.negate THEN ~passed ELSE passed), FALSE, log)

\* case "undefined" / "defined" once the term has given r
definedOf(t, r) ==
    IF r.out = "panic" THEN RPanic(r.log)
    ELSE negated(t, (t.name = "undefined") #
                    (r.out = "value" /\ IsValid(getResolvedValue(r.val))), r.log)

\* case "escaped" once the term has given r (evaluated only when no filter
\* named safe or escape is in the chain)
escapedOf(t, fchain, r) ==
    IF FilterApplied(fchain, "safe") \/ FilterApplied(fchain, "escape")
    THEN negated(t, TRUE, <<>>)
    ELSE IF r.out = "panic" THEN RPanic(r.log)
    ELSE negated(t, r.out = "value" /\ r.safe, r.log)

\* the default case once PerformTest has returned tr
testedWith(t, tr, log) ==
    IF tr.err # "" THEN RError(tr.err, log) ELSE negated(t, tr.passed, log)

\* the default case once evaluateArgs has given ar: PerformTest(tc.name, ..)
performWith(c, reg, t, r, ar) ==
    IF ar.panic THEN RPanic(ar.log)
    ELSE IF ar.err # "" THEN RError(ar.err, ar.log)
    ELSE IF t.name \notin DOMAIN reg THEN RError("notfound", ar.log)
    ELSE testedWith(t, RunTest(reg[t.name], r.val, argValues(c, t.parameters)), ar.log)

\* the default case once the term has given r
defaultOf(c, reg, t, r) ==
    IF r.out # "value" THEN r
    ELSE performWith(c, reg, t, r, evaluateArgs(c, t.parameters, <<>>, <<>>, r.log))

\* testCall.Evaluate of `term is [not] name(parameters)`; ps are the parts
\* of the term's variableResolver, fchain the term's filter chain
testCallEvaluate(c, reg, ps, fchain, t) ==
    CASE t.name \in {"undefined", "defined"} -> definedOf(t, termEvaluate(c, ps, fchain))
      [] t.name = "escaped"  -> escapedOf(t, fchain, termEvaluate(c, ps, fchain))
      [] t.name = "callable" ->
            IF Len(ps) = 0 THEN RPanic(<<>>)        \* tmpvr.parts[-1]
            ELSE CallableResult(c, MarkLast(ps))
      [] OTHER -> defaultOf(c, reg, t, termEvaluate(c, ps, fchain))

(***************************************************************************)
(* SpecIs: a test call `term is [not] name(args)` is parsed and evaluated  *)
(* any number of times.                                                    *)
(***************************************************************************)
\* the terms: variable paths, each with one of the filter chains below
IsTerms ==
    {<<IdentPart(x)>> : x \in {"n", "k", "i", "j", "s", "f", "g", "v", "nl", "nope"}}
    \cup {<<IdentPart("xs"), IntPart(0)>>, <<IdentPart("xs"), IntPart(1)>>,
          <<IdentPart("st"), IdentPart("f")>>}
IsChains ==
    {<<>>} \cup {<<parseFilter(TemplateSet("filters"), n, "none", <<>>).fc>> :
                    n \in {"safe", "escape", "upper"}}
\* the tests written in the templates, with no argument or with one
IsNames == {"odd", "even", "defined", "undefined", "escaped", "callable",
            "none", "integer", "divisibleby"}
IsParameters == {<<>>, <<IntLit(2)>>, <<VarExpr("i")>>}

InitIs ==
    /\ parts \in IsTerms
    /\ parts0 = parts
    /\ \E dcf \in BOOLEAN : ctx = Context(FALSE, dcf, FALSE, FALSE)
    /\ res = [op |-> "none", r |-> NoResult]
    /\ tests = builtinTests
    /\ tc = NoNode
    /\ invoked = ""
    /\ set = TemplateSet("filters")
    /\ chain \in IsChains
    /\ perr = [name |-> "", err |-> ""]
    /\ out = [op |-> "none"]
    /\ render = <<>>
    /\ RenderIdle

\* Parser.parseTest: the name must be registered
ParseIs ==
    /\ \E name \in IsNames, negate \in BOOLEAN, ps \in IsParameters :
          /\ TestExists(name)
          /\ tc' = [name |-> name, testFunc |-> tests[name], negate |-> negate,
                    parameters |-> ps]
    /\ res' = [op |-> "none", r |-> NoResult]
    /\ UNCHANGED <<tests, invoked>>
    /\ UNCHANGED <<parts, parts0, ctx>>
    /\ UNCHANGED <<renderVars, filterVars>>

\* testCall.Evaluate; the callable case writes the marker into the last part
EvaluateIs ==
    /\ tc # NoNode
    /\ parts' = IF tc.name = "callable" THEN MarkLast(parts) ELSE parts
    /\ res' = [op |-> "is", r |-> testCallEvaluate(ctx, tests, parts', chain, tc)]
    /\ UNCHANGED <<parts0, ctx>>
    /\ UNCHANGED <<renderVars, testVars, filterVars>>

NextIs == ParseIs \/ EvaluateIs
SpecIs == InitIs /\ [][NextIs]_vars

\* the parsed test call with `not` added or removed
Flipped == [tc EXCEPT !.negate = ~tc.negate]

\* C11: negation of tests: whenever `x is T(args)` evaluates without
\* error, `x is not T(args)` evaluates to its logical negation, for every
\* test name, the specially handled ones included.
C11_NotNegates ==
    (res.op = "is" /\ res.r.out = "value") =>
        /\ testCallEvaluate(ctx, tests, parts, chain, Flipped).out = "value"
        /\ testCallEvaluate(ctx, tests, parts, chain, Flipped).val = HBool(~res.r.val.v)

\* the value of the tested term, filters applied
Term == termEvaluate(ctx, parts, chain)

\* C18: on every integer n, negative ones included, `n is even` holds iff n
\* is divisible by 2 and `n is odd` holds iff it is not.
C18_OddComplementsEven ==
    (/\ res.op = "is" /\ tc.name \in {"odd", "even"} /\ ~tc.negate /\ tc.parameters = <<>>
     /\ Term.out = "value" /\ getResolvedValue(Term.val).k = "int") =>
        /\ res.r.out = "value"
        /\ res.r.val = HBool((tc.name = "even") <=> (getResolvedValue(Term.val).v % 2 = 0))

(***************************************************************************)
(* The `callable` test on a variable path (checked under SpecResolve).     *)
(***************************************************************************)
\* what the path as parsed resolves to before its last part
BeforeLast == resolve(ctx, SubSeq(parts0, 1, Len(parts0) - 1))
\* the step that looks up the last part of the path as parsed
LastStep ==
    IF Len(parts0) = 1 THEN Step(lookupInitialValue(ctx, parts0[1].s), <<>>)
    ELSE IF BeforeLast.out = "value" /\ IsValid(BeforeLast.val)
    THEN resolveNextPart(ctx, BeforeLast.val, parts0[Len(parts0)], BeforeLast.log)
    ELSE StepNil(BeforeLast.log)
\* the value the path designates: what its last part is looked up to be
\* (out of a *Value or an interface), the function itself if it is one
Designated == getResolvedValue(unpackValue(LastStep.val, FALSE).val)

\* C12: `p is callable` is true exactly when the value designated by the
\* path p, integer indices included, is of function kind, and false
\* otherwise; the evaluation does not invoke that function.  (Stated for a
\* context that permits function calls and a path whose walk does not panic.)
C12_CallableIffFunction ==
    (/\ res.op = "callable" /\ ~parts0[Len(parts0)].isFunctionCall
     /\ ~ctx.DisableContextFunctions /\ ~ctx.DisableNestedFunctions
     /\ ~LastStep.panic /\ BeforeLast.out # "panic") =>
        /\ res.r.out = "value"
        /\ res.r.val = HBool(Designated.k = "func")
        /\ Designated.k = "func" => res.r.log = LastStep.log

(***************************************************************************)
(* SpecValue: the operations of Value and Args that take no execution      *)
(* context are called on inputs drawn from the sets below, one call in a   *)
(* behaviour; res records the call, its input and what it returned.        *)
(***************************************************************************)
InitValue == ResolveIdle /\ RenderIdle /\ TestIdle /\ FilterIdle

Called0(op, in, r) == [op |-> op, in |-> in, r |-> r]
Range(seq) == {seq[i] : i \in DOMAIN seq}

(***************************************************************************)
(* ExpectNamedArgs (args.go).  args has argLen positional arguments and    *)
(* the named arguments kw (the keys of args.kwArgs).                       *)
(***************************************************************************)
\* a validator that counts the arguments and does not look at which
\* required parameters the named arguments supply
ExpectNamedArgsByCount(required, optional, argLen, kw) ==
    IF \E argName \in kw : argName \notin Range(required) \cup Range(optional)
    THEN "ErrArgName"
    ELSE IF argLen + Cardinality(kw) < Len(required) THEN "ErrArgCount"
    ELSE IF argLen > Len(required) + Len(optional) THEN "ErrArgCount"
    ELSE ""

ExpectNamedArgs(required, optional, argLen, kw) ==
    IF \E argName \in kw : argName \notin Range(required) \cup Range(optional)
    THEN "ErrArgName"
    ELSE IF argLen = Len(required) THEN ""
    ELSE IF argLen > Len(required) + Len(optional) THEN "ErrArgCount"
    ELSE IF /\ argLen < Len(required)
            /\ \E i \in (argLen + 1)..Len(required) : required[i] \notin kw
    THEN "ErrArgCount"
    ELSE ""

\* the parameter lists a filter or test declares: sequences of distinct names
RECURSIVE DistinctSeqs(_, _)
DistinctSeqs(names, n) ==
    IF n = 0 THEN {<<>>}
    ELSE LET shorter == DistinctSeqs(names, n - 1) IN
         shorter \cup UNION {{Append(q, x) : x \in names \ Range(q)} : q \in shorter}
ParamNames == Range(ArgKeys)
Declared ==
    UNION {{[required |-> SubSeq(q, 1, k), optional |-> SubSeq(q, k + 1, Len(q))] :
               k \in 0..Len(q)} : q \in DistinctSeqs(ParamNames, Cardinality(ParamNames))}

CallExpectNamedArgs ==
    /\ res.op = "none"
    /\ \E d \in Declared, argLen \in 0..MaxArgs, kw \in SUBSET (ParamNames \cup {"x"}) :
          res' = Called0("ExpectNamedArgs",
                         [required |-> d.required, optional |-> d.optional,
                          argLen |-> argLen, kw |-> kw],
                         ExpectNamedArgs(d.required, d.optional, argLen, kw))
    /\ UNCHANGED <<parts, parts0, ctx>>
    /\ UNCHANGED <<renderVars, testVars, filterVars>>

(***************************************************************************)
(* Value.String and Value.compare (value.go) on numbers and strings.  A    *)
(* Go string is the sequence of its bytes, each a one-character string.    *)
(***************************************************************************)
DigitChars == <<"0", "1", "2", "3", "4", "5", "6", "7", "8", "9">>
OtherChars == <<"-", ".", "a", "b", "c", "d", "o", "x", "z">>
\* the byte value of a character
ByteOf(c) ==
    IF \E d \in DOMAIN DigitChars : DigitChars[d] = c
    THEN 47 + CHOOSE d \in DOMAIN DigitChars : DigitChars[d] = c
    ELSE CASE c = "-" -> 45 [] c = "." -> 46 [] c = "a" -> 97 [] c = "b" -> 98
           [] c = "c" -> 99 [] c = "d" -> 100 [] c = "o" -> 111 [] c = "x" -> 120
           [] OTHER -> 122

\* strconv.FormatInt(n, 10) / strconv.FormatUint(n, 10)
RECURSIVE FormatUint(_)
FormatUint(n) ==
    IF n < 10 THEN <<DigitChars[n + 1]>>
    ELSE Append(FormatUint(n \div 10), DigitChars[(n % 10) + 1])
FormatInt(n) == IF n < 0 THEN <<"-">> \o FormatUint(-n) ELSE FormatUint(n)
\* fmt.Sprintf("%f", f) of a float of n tenths: six decimals
FormatFloat(n) ==
    (IF n < 0 THEN <<"-">> ELSE <<>>) \o
    FormatUint((IF n < 0 THEN -n ELSE n) \div 10) \o <<".">> \o
    <<DigitChars[((IF n < 0 THEN -n ELSE n) % 10) + 1], "0", "0", "0", "0", "0">>

\* Value.String as a byte sequence
StringBytes(x) ==
    LET rv == getResolvedValue(x) IN
    CASE rv.k = "string" -> rv.v
      [] rv.k = "int"    -> FormatInt(rv.v)
      [] rv.k = "uint"   -> FormatUint(rv.v)
      [] rv.k = "float"  -> FormatFloat(rv.v)
      [] OTHER           -> <<>>

\* the order of Go strings: byte by byte, a proper prefix first
RECURSIVE StringLess(_, _)
StringLess(a, b) ==
    IF b = <<>> THEN FALSE
    ELSE IF a = <<>> THEN TRUE
    ELSE IF ByteOf(Head(a)) # ByteOf(Head(b)) THEN ByteOf(Head(a)) < ByteOf(Head(b))
    ELSE StringLess(Tail(a), Tail(b))

\* the value of c as a digit of the base, -1 if it is none
DigitVal(c, base) ==
    LET d == IF \E i \in DOMAIN DigitChars : DigitChars[i] = c THEN ByteOf(c) - 48
             ELSE IF c \in {"a", "b", "c", "d"} THEN ByteOf(c) - 87
             ELSE -1
    IN  IF d < base THEN d ELSE -1
\* the number written by the digits s in the base, -1 if s is empty or
\* holds a character that is no digit of the base
RECURSIVE DigitsValue(_, _)
DigitsValue(s, base) ==
    IF s = <<>> THEN -1
    ELSE IF DigitVal(s[Len(s)], base) = -1 THEN -1
    ELSE IF Len(s) = 1 THEN DigitVal(s[1], base)
    ELSE IF DigitsValue(SubSeq(s, 1, Len(s) - 1), base) = -1 THEN -1
    ELSE base * DigitsValue(SubSeq(s, 1, Len(s) - 1), base) + DigitVal(s[Len(s)], base)

\* i, _ := strconv.ParseInt(s, base, 64): an optional sign, then digits; 0
\* on a syntax error
ParseInt(s, base) ==
    LET neg  == s # <<>> /\ Head(s) = "-"
        body == IF neg THEN Tail(s) ELSE s
    IN  IF DigitsValue(body, base) = -1 THEN 0
        ELSE IF neg THEN -DigitsValue(body, base) ELSE DigitsValue(body, base)

\* strconv.ParseFloat(s, 64) of a decimal without exponent, then int(f):
\* an optional sign, digits with at most one point and at least one digit
ParseFloatInt(s) ==
    LET neg    == s # <<>> /\ Head(s) = "-"
        body   == IF neg THEN Tail(s) ELSE s
        points == {i \in DOMAIN body : body[i] = "."}
        whole  == IF points = {} THEN body
                  ELSE SubSeq(body, 1, (CHOOSE i \in points : TRUE) - 1)
        frac   == IF points = {} THEN <<>>
                  ELSE SubSeq(body, (CHOOSE i \in points : TRUE) + 1, Len(body))
        ok     == /\ Cardinality(points) <= 1
                  /\ whole # <<>> \/ frac # <<>>
                  /\ whole = <<>> \/ DigitsValue(whole, 10) # -1
                  /\ frac = <<>> \/ DigitsValue(frac, 10) # -1
    IN  IF ~ok \/ whole = <<>> THEN 0
        ELSE IF neg THEN -DigitsValue(whole, 10) ELSE DigitsValue(whole, 10)

\* Value.Integer / Value.Int64, case reflect.String
IntegerOfString(s) ==
    IF Len(s) > 1 /\ s[1] = "0" /\ s[2] = "x" THEN ParseInt(SubSeq(s, 3, Len(s)), 16)
    ELSE IF Len(s) > 1 /\ s[1] = "0" /\ s[2] = "b" THEN ParseInt(SubSeq(s, 3, Len(s)), 2)
    ELSE IF /\ Len(s) > 1 /\ s[1] = "0"
            /\ s[2] = "o" \/ \E i \in DOMAIN DigitChars : DigitChars[i] = s[2]
    THEN ParseInt(SubSeq(s, 3, Len(s)), 8)
    ELSE ParseFloatInt(s)

\* Value.Int64 (Value.Integer is the same on a 64-bit int)
Int64(x) ==
    LET rv == getResolvedValue(x) IN
    CASE rv.k = "int"   -> rv.v
      [] rv.k = "uint"  -> IF rv.v > MaxInt THEN MaxInt ELSE rv.v
      [] rv.k = "float" -> GoQuo(rv.v, 10)
      [] rv.k = "string" -> IntegerOfString(rv.v)
      [] OTHER          -> 0
\* Value.Float of a number, in tenths
Float(x) ==
    LET rv == getResolvedValue(x) IN
    CASE rv.k \in {"int", "uint"} -> 10 * rv.v
      [] rv.k = "float"           -> rv.v
      [] OTHER                    -> 0

Sign3(lt, gt) == IF lt THEN -1 ELSE IF gt THEN 1 ELSE 0
\* reflect.Type.Comparable
Comparable(x) == x.k \notin {"slice", "map", "func"}
IsIntegerKind(x) == getResolvedValue(x).k \in {"int", "uint"}
IsFloatKind(x)   == getResolvedValue(x).k = "float"

\* Value.compare(other, caseSensitive = true)
compare(v, other) ==
    IF ~IsValid(v) \/ ~Comparable(v) THEN -1
    ELSE IF ~IsValid(other) \/ ~Comparable(other) THEN 1
    ELSE CASE IsIntegerKind(v) /\ IsIntegerKind(other) ->
                Sign3(Int64(v) < Int64(other), Int64(v) > Int64(other))
           [] IsFloatKind(v) /\ IsFloatKind(other) ->
                Sign3(Float(v) < Float(other), Float(v) > Float(other))
           [] OTHER ->
                IF IsNil(v) /\ ~IsNil(other) THEN -1
                ELSE IF IsNil(other) /\ ~IsNil(v) THEN 1
                ELSE Sign3(StringLess(StringBytes(v), StringBytes(other)),
                           StringLess(StringBytes(other), StringBytes(v)))

\* Value.Compare, and the tests `le` and `ge` with their one argument
Compare(v, other) == compare(v, other)
testLe(in, first) == Compare(in, first) # 1
testGe(in, first) == Compare(in, first) # -1

\* the values compared
CompareValues ==
    <<HInt(-12), HInt(-3), HInt(0), HInt(2), HInt(9), HInt(10), HInt(MaxInt),
      HUint(0), HUint(2), HUint(10), HUint(MaxInt), HUint(MaxInt + 1), HUint(2 * MaxInt + 1),
      HFloat(-30), HFloat(-5), HFloat(0), HFloat(20), HFloat(95), HFloat(100), HFloat(105),
      HStr(<<"a">>), HStr(<<"1", "0">>), Invalid, HSlice(<<>>)>>

CallCompare ==
    /\ res.op = "none"
    /\ \E a, b \in DOMAIN CompareValues :
          res' = Called0("Compare", [v |-> CompareValues[a], other |-> CompareValues[b]],
                         compare(CompareValues[a], CompareValues[b]))
    /\ UNCHANGED <<parts, parts0, ctx>>
    /\ UNCHANGED <<renderVars, testVars, filterVars>>

\* the strings converted: up to MaxStr characters of this alphabet
IntChars == {"0", "1", "7", "9", "x", "b", "-", "."}
IntStrings == UNION {[1..n -> IntChars] : n \in 0..MaxStr}
UintValues == {0, 7, MaxInt, MaxInt + 1, 2 * MaxInt + 1}

CallInt64 ==
    /\ res.op = "none"
    /\ \/ \E str \in IntStrings : res' = Called0("Int64", HStr(str), Int64(HStr(str)))
       \/ \E u \in UintValues : res' = Called0("Int64", HUint(u), Int64(HUint(u)))
    /\ UNCHANGED <<parts, parts0, ctx>>
    /\ UNCHANGED <<renderVars, testVars, filterVars>>

(***************************************************************************)
(* Value.IterateOrder on a map (value.go).  rv.MapKeys() yields the keys   *)
(* in an order the host does not define: host is any arrangement of them.  *)
(***************************************************************************)
\* sortedKeys.Less
Less(vi, vj) ==
    IF IsIntegerKind(vi) /\ IsIntegerKind(vj) THEN Int64(vi) < Int64(vj)
    ELSE IF IsFloatKind(vi) /\ IsFloatKind(vj) THEN Float(vi) < Float(vj)
    ELSE IF getResolvedValue(vi).k = "string" THEN StringLess(StringBytes(vi), StringBytes(vj))
    ELSE compare(vi, vj) = -1

\* sort.Sort(keys) and sort.Sort(sort.Reverse(keys)), by insertion
InsertAt(done, x, n) == SubSeq(done, 1, n) \o <<x>> \o SubSeq(done, n + 1, Len(done))
InsertKey(done, x, reverse) ==
    InsertAt(done, x,
             Cardinality({i \in DOMAIN done :
                            IF reverse THEN Less(x, done[i]) ELSE Less(done[i], x)}))
RECURSIVE SortKeys(_, _)
SortKeys(keys, reverse) ==
    IF keys = <<>> THEN <<>>
    ELSE InsertKey(SortKeys(SubSeq(keys, 1, Len(keys) - 1), reverse), keys[Len(keys)], reverse)

\* the loop over keys: fn returns false at its stopAt-th call (never when
\* stopAt is 0); empty() is called for no keys
Visit(keys, stopAt) ==
    [visited |-> IF stopAt \in 1..Len(keys) THEN SubSeq(keys, 1, stopAt) ELSE keys,
     empty   |-> Len(keys) = 0]

\* what a mutation of IterateOrder that sorts without being asked would do
IterateOrderAlwaysSorted(host, reverse, sorted, stopAt) ==
    Visit(SortKeys(host, reverse), stopAt)

\* IterateOrder, case reflect.Map
IterateOrder(host, reverse, sorted, stopAt) ==
    Visit(IF sorted THEN SortKeys(host, reverse) ELSE host, stopAt)

\* the keys of the iterated maps: one map type has integer keys, one strings
MapKeys ==
    <<{HInt(-3), HInt(2), HInt(9), HInt(10)},
      {HStr(<<"a">>), HStr(<<"1", "0">>), HStr(<<"9">>), HStr(<<"b">>)}>>
Arrangements(S) ==
    UNION {{f \in [1..n -> S] : \A i, j \in 1..n : i # j => f[i] # f[j]} : n \in 0..MaxKeys}

CallIterateOrder ==
    /\ res.op = "none"
    /\ \E kind \in DOMAIN MapKeys : \E host \in Arrangements(MapKeys[kind]) :
       \E reverse, sorted \in BOOLEAN, stopAt \in 0..MaxKeys :
          res' = Called0("IterateOrder",
                         [host |-> host, reverse |-> reverse, sorted |-> sorted,
                          stopAt |-> stopAt],
                         IterateOrder(host, reverse, sorted, stopAt))
    /\ UNCHANGED <<parts, parts0, ctx>>
    /\ UNCHANGED <<renderVars, testVars, filterVars>>

\* the element expressions of the array literals written in templates
ArrayElements == {IntLit(1), StrLit("a"), VarExpr("n"), VarExpr("f"), VarExpr("nope")}
\* parseArray: `[` e1 `,` .. `,` en `]` gives a resolver with one part per
\* element, `[]` a resolver without parts
parseArray(es) == [i \in 1..Len(es) |-> ArrayPart(es[i])]

\* an array literal is parsed and evaluated
EvaluateArray ==
    /\ res.op = "none"
    /\ \E n \in 0..MaxArgs : \E es \in [1..n -> ArrayElements] : \E dcf \in BOOLEAN :
          /\ parts' = parseArray(es)
          /\ parts0' = parts'
          /\ ctx' = Context(FALSE, dcf, FALSE, FALSE)
          /\ res' = Called0("Array", es, Evaluate(ctx', parts'))
    /\ UNCHANGED <<renderVars, testVars, filterVars>>

\* the scopes of the looked-up names: each of the keys n and N is absent,
\* bound to nil or bound to a number that tells the scope and the key
ScopesOf(forn, forN) ==
    {m \in UNION {[D -> {Invalid, HInt(forn), HInt(forN)}] : D \in SUBSET {"n", "N"}} :
        \A k \in DOMAIN m : m[k] \in {Invalid, IF k = "n" THEN HInt(forn) ELSE HInt(forN)}}
LookupNames == {"n", "N", "a"}

\* the first part of a one-part path is looked up
LookupInitial ==
    /\ res.op = "none"
    /\ \E private \in ScopesOf(1, 2), public \in ScopesOf(3, 4) :
       \E name \in LookupNames, ic \in BOOLEAN :
          /\ parts' = <<IdentPart(name)>>
          /\ parts0' = parts'
          /\ ctx' = [Context(ic, FALSE, FALSE, FALSE) EXCEPT !.Private = private,
                                                             !.Public = public]
          /\ res' = Called0("lookupInitialValue", name, lookupInitialValue(ctx', parts'[1].s))
    /\ UNCHANGED <<renderVars, testVars, filterVars>>

(***************************************************************************)
(* The `in` test (testIn) and Value.Contains (value.go).  The keys of a    *)
(* map and the field names of a struct are one character long.             *)
(***************************************************************************)
\* Value.EqualValueTo
EqualValueTo(v, other) ==
    IF (IsIntegerKind(v) \/ IsFloatKind(v)) /\ (IsIntegerKind(other) \/ IsFloatKind(other))
    THEN IF IsFloatKind(v) \/ IsFloatKind(other) THEN Float(v) = Float(other)
         ELSE Int64(v) = Int64(other)
    ELSE IF IsNil(v) /\ IsNil(other) THEN TRUE
    ELSE IF IsNil(v) \/ IsNil(other) THEN FALSE
    ELSE /\ Comparable(getResolvedValue(v)) /\ Comparable(getResolvedValue(other))
         /\ getResolvedValue(v).k = getResolvedValue(other).k
         /\ getResolvedValue(v).v = getResolvedValue(other).v

\* the *Value of a map key
KeyValue(kt, key) == IF kt = "string" THEN HStr(<<key>>) ELSE HInt(key)
\* strings.Contains(t, s)
IsSubstring(s, t) == \E i \in 0..(Len(t) - Len(s)) : SubSeq(t, i + 1, i + Len(s)) = s

\* Value.Contains
Contains(v, other) ==
    CASE getResolvedValue(v).k = "struct" ->
            \E name \in DOMAIN getResolvedValue(v).v.f : <<name>> = StringBytes(other)
      [] getResolvedValue(v).k = "map" ->
            /\ IsValid(other)
            /\ getResolvedValue(v).t = other.k
            /\ \E key \in DOMAIN getResolvedValue(v).v :
                  KeyValue(getResolvedValue(v).t, key) = getResolvedValue(other)
      [] getResolvedValue(v).k = "string" ->
            IsSubstring(StringBytes(other), getResolvedValue(v).v)
      [] getResolvedValue(v).k = "slice" ->
            \E i \in DOMAIN getResolvedValue(v).v :
                EqualValueTo(other, getResolvedValue(v).v[i])
      [] OTHER -> FALSE

\* Value.Iterate: the indices (of a map: the keys) fn is called for, and
\* the key and the value fn is called with at one of them (value is the
\* nil *Value but for a map); empty() is called when there are none
Iterated(v) ==
    IF getResolvedValue(v).k \in {"map", "slice", "string"}
    THEN DOMAIN getResolvedValue(v).v ELSE {}
IterKey(v, j) ==
    CASE getResolvedValue(v).k = "map"    -> KeyValue(getResolvedValue(v).t, j)
      [] getResolvedValue(v).k = "string" -> HStr(<<getResolvedValue(v).v[j]>>)
      [] OTHER                            -> getResolvedValue(v).v[j]
IterValue(v, j) ==
    IF getResolvedValue(v).k = "map" THEN getResolvedValue(v).v[j] ELSE NilValue

\* testIn(in, container): container.Iterate(fn, nil); calling the nil
\* empty function panics
testIn(in, container) ==
    IF Iterated(container) = {}
    THEN [out |-> "panic", r |-> FALSE]
    ELSE [out |-> "ok",
          r |-> \E j \in Iterated(container) :
                   EqualValueTo(IF IterValue(container, j).k = "nilptr"
                                THEN IterKey(container, j) ELSE IterValue(container, j), in)]

\* the values looked for and the containers looked in
InValues ==
    <<HInt(1), HInt(2), HUint(1), HFloat(10), HStr(<<"a">>), HStr(<<"1">>),
      HStr(<<"a", "b">>), HStr(<<>>), Invalid>>
InContainers ==
    <<HSlice(<<>>), HSlice(<<HInt(1), HStr(<<"a">>)>>),
      HSlice(<<HStr(<<"a", "b">>), HStr(<<"b">>)>>),
      HStr(<<>>), HStr(<<"a", "b", "c">>), HStr(<<"1">>),
      HMap("string", <<>>), HMap("string", ("a" :> HInt(2)) @@ ("b" :> HStr(<<"1">>))),
      HMap("int", 1 :> HStr(<<"a">>)),
      Invalid, HInt(5), HBool(TRUE), HStruct("a" :> HInt(1), <<>>, <<>>)>>

\* `x is in c` is evaluated and c.Contains(x) is called
CallIn ==
    /\ res.op = "none"
    /\ \E x \in DOMAIN InValues, c \in DOMAIN InContainers :
          res' = Called0("in", [x |-> InValues[x], c |-> InContainers[c]],
                         [test |-> testIn(InValues[x], InContainers[c]),
                          contains |-> Contains(InContainers[c], InValues[x])])
    /\ UNCHANGED <<parts, parts0, ctx>>
    /\ UNCHANGED <<renderVars, testVars, filterVars>>

NextValue ==
    \/ CallExpectNamedArgs
    \/ CallCompare
    \/ CallInt64
    \/ CallIterateOrder
    \/ EvaluateArray
    \/ LookupInitial
    \/ CallIn
SpecValue == InitValue /\ [][NextValue]_vars

\* C27: Value.Compare is a consistent ordering: Compare(a, a) = 0 and
\* Compare(a, b) = -Compare(b, a) for all values, nil and non-comparable
\* ones included, so that `a is le b` and `b is ge a` agree.
C27_CompareConsistent ==
    res.op = "Compare" =>
        /\ Compare(res.in.v, res.in.v) = 0
        /\ res.r = -Compare(res.in.other, res.in.v)
        /\ testLe(res.in.v, res.in.other) = testGe(res.in.other, res.in.v)

\* C25: the `in` test never crashes: for a container that is empty or not
\* iterable, `x is in c` is false, without error or panic.
C25_InNeverCrashes ==
    (res.op = "in" /\ (res.in.c.k \notin {"slice", "map", "string"} \/ DOMAIN res.in.c.v = {})) =>
        res.r.test = [out |-> "ok", r |-> FALSE]

\* C26: the `in` test agrees with Value.Contains: `x is in c` gives what
\* c.Contains(x) gives, for a string, a map, and an array or slice c.
C26_InAgreesWithContains ==
    (res.op = "in" /\ res.in.c.k \in {"slice", "map", "string"}) =>
        /\ res.r.test.out = "ok"
        /\ res.r.test.r = res.r.contains

\* C13: ExpectNamedArgs returns nil exactly when every named argument's
\* name is in required or optional and the number of arguments supplied,
\* positional plus named, is in len(required)..len(required)+len(optional);
\* otherwise it returns ErrArgName (a name is unknown) or ErrArgCount (the
\* count is out of range).
C13_NamedArgsAccepted ==
    res.op = "ExpectNamedArgs" =>
        /\ res.r = "" <=>
              /\ res.in.kw \subseteq Range(res.in.required) \cup Range(res.in.optional)
              /\ res.in.argLen + Cardinality(res.in.kw) >= Len(res.in.required)
              /\ res.in.argLen + Cardinality(res.in.kw)
                    <= Len(res.in.required) + Len(res.in.optional)
        /\ res.r \in {"", "ErrArgName", "ErrArgCount"}
        /\ res.r = "ErrArgName" =>
              ~(res.in.kw \subseteq Range(res.in.required) \cup Range(res.in.optional))

\* C13 as amended: ExpectNamedArgs returns nil exactly when every named
\* argument's name is in required or optional, there are at most
\* len(required)+len(optional) positional arguments and every required
\* parameter after the positional ones is supplied by name; an unknown
\* name gives ErrArgName, any other failure ErrArgCount.
C13_NamedArgsFilled ==
    res.op = "ExpectNamedArgs" =>
        /\ res.r = "" <=>
              /\ res.in.kw \subseteq Range(res.in.required) \cup Range(res.in.optional)
              /\ res.in.argLen <= Len(res.in.required) + Len(res.in.optional)
              /\ \A i \in DOMAIN res.in.required :
                    i > res.in.argLen => res.in.required[i] \in res.in.kw
        /\ res.r = "ErrArgName" <=>
              ~(res.in.kw \subseteq Range(res.in.required) \cup Range(res.in.optional))
        /\ res.r \in {"", "ErrArgName", "ErrArgCount"}

\* f(1, b=2) for required a, b: accepted
C13_Witness ==
    /\ res.op = "ExpectNamedArgs" /\ res.r = ""
    /\ Len(res.in.required) = 2 /\ res.in.argLen = 1
    /\ res.in.kw = {res.in.required[2]}

\* C14: Compare promotes numerically: for an integer and a float, in
\* either order, it returns the sign of the difference of the two as
\* floats, never the order of their string forms; for two integers, signed
\* or unsigned, the sign of the difference of their 64-bit values.
C14_CompareNumeric ==
    res.op = "Compare" =>
        /\ (/\ IsIntegerKind(res.in.v) \/ IsFloatKind(res.in.v)
            /\ IsIntegerKind(res.in.other) \/ IsFloatKind(res.in.other)
            /\ IsIntegerKind(res.in.v) # IsIntegerKind(res.in.other)) =>
              res.r = Sign3(Float(res.in.v) < Float(res.in.other),
                            Float(res.in.v) > Float(res.in.other))
        /\ (IsIntegerKind(res.in.v) /\ IsIntegerKind(res.in.other)) =>
              res.r = Sign3(Int64(res.in.v) < Int64(res.in.other),
                            Int64(res.in.v) > Int64(res.in.other))

\* the digits of a prefixed string: what follows the first n characters
Digits(n) == SubSeq(res.in.v, n + 1, Len(res.in.v))
HasPrefix(c) == Len(res.in.v) > 1 /\ res.in.v[1] = "0" /\ res.in.v[2] = c

\* C15: integer coercion of a string: base 16 after `0x`, base 2 after
\* `0b`, base 8 for a leading `0` followed by octal digits ("017" is 15,
\* "05" is 5); a string that does not begin with 0 is read as a decimal
\* number and truncated toward zero, 0 if it is none; an unsigned value
\* above the signed maximum gives the signed maximum.
C15_IntegerOfString ==
    res.op = "Int64" =>
        /\ (res.in.k = "string" /\ HasPrefix("x") /\ DigitsValue(Digits(2), 16) # -1) =>
              res.r = DigitsValue(Digits(2), 16)
        /\ (res.in.k = "string" /\ HasPrefix("b") /\ DigitsValue(Digits(2), 2) # -1) =>
              res.r = DigitsValue(Digits(2), 2)
        /\ (/\ res.in.k = "string" /\ Len(res.in.v) > 1 /\ res.in.v[1] = "0"
            /\ DigitsValue(Digits(1), 8) # -1) =>
              res.r = DigitsValue(Digits(1), 8)
        /\ (res.in.k = "string" /\ (res.in.v = <<>> \/ res.in.v[1] # "0")) =>
              res.r = ParseFloatInt(res.in.v)
        /\ res.in.k = "uint" =>
              res.r = IF res.in.v > MaxInt THEN MaxInt ELSE res.in.v

\* the order of two keys of one kind: integers by value, strings by bytes
KeyBefore(a, b) ==
    IF a.k = "int" THEN a.v < b.v ELSE StringLess(a.v, b.v)
Ascending(seq)  == \A i, j \in DOMAIN seq : i < j => KeyBefore(seq[i], seq[j])
Descending(seq) == \A i, j \in DOMAIN seq : i < j => KeyBefore(seq[j], seq[i])
IsPrefix(a, b)  == Len(a) <= Len(b) /\ a = SubSeq(b, 1, Len(a))

Element(i) == EvalExpr(ctx, res.in[i], <<>>)
Failing == {i \in DOMAIN res.in : Element(i).out # "value"}
FirstFailing == CHOOSE i \in Failing : \A j \in Failing : i <= j

\* C19: an array literal of n >= 0 element expressions evaluates to a
\* sequence Value with safe = true that holds the n evaluated elements in
\* source order, the empty literal to an empty sequence; an error in an
\* element expression aborts the evaluation with that error.
C19_ArrayLiteral ==
    res.op = "Array" =>
        IF Failing = {}
        THEN /\ res.r.out = "value" /\ res.r.safe
             /\ res.r.val.k = "slice"
             /\ Len(res.r.val.v) = Len(res.in)
             /\ \A i \in DOMAIN res.in : res.r.val.v[i].v.val = Element(i).val
        ELSE /\ res.r.out = Element(FirstFailing).out
             /\ res.r.err = Element(FirstFailing).err

\* the keys of the scope m that match the looked-up name
Matching(m) ==
    {k \in DOMAIN m : k = res.in \/ (ctx.IgnoreVariableCase /\ ToLower(k) = ToLower(res.in))}
\* the value the scope m gives for the name: that of the exact key if there
\* is one, else that of a matching key
FoundIn(m, v) ==
    IF res.in \in DOMAIN m THEN v = m[res.in] ELSE \E k \in Matching(m) : v = m[k]

\* C20: the first part of a path is looked up in the private scope and only
\* if no private key matches in the public scope; a matching private key
\* wins also when its value is nil and when it matches only
\* case-insensitively while the public scope has the exact key; a name in
\* neither scope gives nil.
C20_PrivateFirst ==
    res.op = "lookupInitialValue" =>
        IF Matching(ctx.Private) # {} THEN FoundIn(ctx.Private, res.r)
        ELSE IF Matching(ctx.Public) # {} THEN FoundIn(ctx.Public, res.r)
        ELSE res.r = Invalid

\* the private scope matches only case-insensitively and holds nil, the
\* public scope holds a number under the exact key: the result is nil
C20_Witness ==
    /\ res.op = "lookupInitialValue" /\ res.in = "n"
    /\ ctx.IgnoreVariableCase
    /\ DOMAIN ctx.Private = {"N"} /\ ctx.Private["N"] = Invalid
    /\ "n" \in DOMAIN ctx.Public /\ ctx.Public["n"] = HInt(3)
    /\ res.r = Invalid

(***************************************************************************)
(* The builtin filter tables (filters.go).  In SpecBuiltins `set` holds    *)
(* the package-level maps builtinFilters (filters) and builtinFilterArgs   *)
(* (filterArgs); `out` says what the last call was, what the tables were   *)
(* before it and what it returned, and counts the registrations.           *)
(***************************************************************************)
\* an *Args: isNil for the nil pointer
ArgsOf(args, kwArgs) == [isNil |-> FALSE, args |-> args, kwArgs |-> kwArgs]
NilArgs == [isNil |-> TRUE, args |-> <<>>, kwArgs |-> <<>>]
\* NewArgs(named, args...): the variadic arguments become the slice as they
\* are, a nil *Value among them included
NewArgs(named, args) == ArgsOf(args, named)

\* the outcomes of ApplyFilter / ApplyFilterArgs: the function called and
\* what it was handed, an error, or a panic
CalledParam(fn, param) ==
    [out |-> "call", fn |-> fn, form |-> "param", param |-> param, args |-> NilArgs]
CalledArgs(fn, args) ==
    [out |-> "call", fn |-> fn, form |-> "args", param |-> NilValue, args |-> args]
NotFound == [out |-> "error", fn |-> "", form |-> "", param |-> NilValue, args |-> NilArgs]
Panicked == [out |-> "panic", fn |-> "", form |-> "", param |-> NilValue, args |-> NilArgs]

ApplyFilter(s, name, param) ==
    IF name \notin DOMAIN s.filters
    THEN IF name \in DOMAIN s.filterArgs
         THEN CalledArgs(s.filterArgs[name], NewArgs(<<>>, <<param>>))
         ELSE NotFound
    ELSE CalledParam(s.filters[name], IF param = NilValue THEN Invalid ELSE param)

\* the param ApplyFilterArgs hands to a single-parameter filter
paramOf(args) ==
    IF Len(args.args) > 0 THEN args.args[1]
    ELSE IF DOMAIN args.kwArgs # {} THEN args.kwArgs[CHOOSE key \in DOMAIN args.kwArgs : TRUE]
    ELSE NilValue

ApplyFilterArgs(s, name, args) ==
    IF name \notin DOMAIN s.filterArgs
    THEN IF args.isNil THEN Panicked              \* len(args.args) of a nil *Args
         ELSE IF Len(args.args) + Cardinality(DOMAIN args.kwArgs) < 2
                   /\ name \in DOMAIN s.filters
         THEN CalledParam(s.filters[name], paramOf(args))
         ELSE NotFound
    ELSE CalledArgs(s.filterArgs[name],
                    IF args.isNil THEN NewArgs(<<>>, <<NilValue>>) ELSE args)

BuiltinFilterExists(s, name) == name \in DOMAIN s.filters \/ name \in DOMAIN s.filterArgs

\* the tables after package initialisation
BuiltinTables ==
    [filters |-> ("safe" :> "fnSafe") @@ ("upper" :> "fnUpper"),
     filterArgs |-> ("join" :> "faJoin"),
     bannedFilters |-> {}]
BuiltinNames == {"safe", "upper", "join", "mine"}
\* without the key name
Without(m, name) == [key \in DOMAIN m \ {name} |-> m[key]]
\* the record of a call
Did(op, name, prev, err, r) ==
    [op |-> op, name |-> name, before |-> prev, err |-> err, r |-> r,
     n |-> IF op \in {"ApplyFilter", "ApplyFilterArgs"} THEN out.n ELSE out.n + 1]

InitBuiltins ==
    /\ ResolveIdle /\ RenderIdle /\ TestIdle
    /\ set = BuiltinTables
    /\ chain = <<>>
    /\ perr = [name |-> "", err |-> ""]
    /\ out = [op |-> "none", name |-> "", before |-> BuiltinTables, err |-> FALSE,
              r |-> NotFound, n |-> 0]
    /\ render = <<>>

registerFilterBuiltin ==
    /\ out.n < MaxCalls
    /\ \E name \in BuiltinNames, fn \in {"fnUpper", "fnBoth"} :
          IF BuiltinFilterExists(set, name)
          THEN /\ out' = Did("registerFilterBuiltin", name, set, TRUE, NotFound)
               /\ set' = set
          ELSE /\ out' = Did("registerFilterBuiltin", name, set, FALSE, NotFound)
               /\ set' = [set EXCEPT !.filters = (name :> fn) @@ set.filters]
    /\ UNCHANGED <<chain, perr, render>>
    /\ UNCHANGED <<resolveVars, renderVars, testVars>>

registerFilterArgsBuiltin ==
    /\ out.n < MaxCalls
    /\ \E name \in BuiltinNames, fn \in {"faJoin", "faBoth"} :
          IF name \in DOMAIN set.filterArgs
          THEN /\ out' = Did("registerFilterArgsBuiltin", name, set, TRUE, NotFound)
               /\ set' = set
          ELSE /\ out' = Did("registerFilterArgsBuiltin", name, set, FALSE, NotFound)
               /\ set' = [set EXCEPT !.filters = Without(set.filters, name),
                                     !.filterArgs = (name :> fn) @@ set.filterArgs]
    /\ UNCHANGED <<chain, perr, render>>
    /\ UNCHANGED <<resolveVars, renderVars, testVars>>

AliasBuiltinFilter ==
    /\ out.n < MaxCalls
    /\ \E name \in BuiltinNames, alias \in BuiltinNames :
          IF ~BuiltinFilterExists(set, name)
          THEN /\ out' = Did("AliasBuiltinFilter", alias, set, TRUE, NotFound)
               /\ set' = set
          ELSE IF name \in DOMAIN set.filters
          THEN /\ out' = Did("AliasBuiltinFilter", alias, set, FALSE, NotFound)
               /\ set' = [set EXCEPT !.filters =
                             (alias :> set.filters[name]) @@ Without(set.filters, alias)]
          ELSE /\ out' = Did("AliasBuiltinFilter", alias, set, FALSE, NotFound)
               /\ set' = [set EXCEPT !.filterArgs =
                             (alias :> set.filterArgs[name]) @@ Without(set.filterArgs, alias)]
    /\ UNCHANGED <<chain, perr, render>>
    /\ UNCHANGED <<resolveVars, renderVars, testVars>>

\* the params and the args the filters are applied with
ApplyParams == {NilValue, HInt(1)}
ApplyArgs ==
    {NilArgs, NewArgs(<<>>, <<>>), NewArgs(<<>>, <<HInt(1)>>), NewArgs("a" :> HInt(1), <<>>),
     NewArgs(<<>>, <<HInt(1), HInt(1)>>)}

CallApplyFilter ==
    /\ \E name \in BuiltinNames, param \in ApplyParams :
          out' = [Did("ApplyFilter", name, set, FALSE, ApplyFilter(set, name, param))
                    EXCEPT !.err = param = NilValue]
    /\ UNCHANGED <<set, chain, perr, render>>
    /\ UNCHANGED <<resolveVars, renderVars, testVars>>

CallApplyFilterArgs ==
    /\ \E name \in BuiltinNames, args \in ApplyArgs :
          out' = [Did("ApplyFilterArgs", name, set, FALSE, ApplyFilterArgs(set, name, args))
                    EXCEPT !.err = args.isNil]
    /\ UNCHANGED <<set, chain, perr, render>>
    /\ UNCHANGED <<resolveVars, renderVars, testVars>>

NextBuiltins ==
    \/ registerFilterBuiltin
    \/ registerFilterArgsBuiltin
    \/ AliasBuiltinFilter
    \/ CallApplyFilter
    \/ CallApplyFilterArgs
SpecBuiltins == InitBuiltins /\ [][NextBuiltins]_vars

\* every name bound in the table m before the last call is bound to the
\* same function in the table now
Kept(prev, now) == \A name \in DOMAIN prev : name \in DOMAIN now /\ now[name] = prev[name]

\* C23: the builtin filter tables stay disjoint and stable: no name is a
\* key of both tables, so ApplyFilter and ApplyFilterArgs call the same
\* filter for a name, and no call replaces or removes the function bound
\* to a name.
C23_TablesDisjointStable ==
    /\ DOMAIN set.filters \cap DOMAIN set.filterArgs = {}
    /\ \A name \in BuiltinNames :
          ApplyFilter(set, name, HInt(1)).fn
             = ApplyFilterArgs(set, name, NewArgs(<<>>, <<HInt(1)>>)).fn
    /\ Kept(out.before.filters, set.filters)
    /\ Kept(out.before.filterArgs, set.filterArgs)

\* C30: a nil args (in out.err: the call was made with nil) is an empty
\* argument list: ApplyFilterArgs never panics, hands an args-form filter
\* an Args without positional and named arguments and a single-parameter
\* filter a non-nil param of value nil; ApplyFilter with a nil param hands
\* an args-form filter no nil *Value.
C30_NilArgsIsEmpty ==
    /\ (out.op = "ApplyFilterArgs" /\ out.err) =>
          /\ out.r.out # "panic"
          /\ (out.r.out = "call" /\ out.r.form = "args") =>
                out.r.args = NewArgs(<<>>, <<>>)
          /\ (out.r.out = "call" /\ out.r.form = "param") => out.r.param = Invalid
    /\ (out.op = "ApplyFilter" /\ out.err /\ out.r.out = "call" /\ out.r.form = "args") =>
          \A j \in DOMAIN out.r.args.args : out.r.args.args[j] # NilValue

(***************************************************************************)
(* Deep resolution (deep.go): resolveInterface, resolveSlice and           *)
(* resolveMap as a machine over their own activations.  res.frames is the  *)
(* Go call stack of these three functions, the last frame the innermost.   *)
(* A resolveInterface frame is at "enter" before its switch, at            *)
(* "container" while resolveSlice or resolveMap runs, at "template" while  *)
(* a *Template is evaluated, at "evaluate" while tpl.Evaluate of a parsed  *)
(* string runs (the variable of the template is resolved and, DeepResolve  *)
(* being on, handed to resolveDeep), at "again" while the resolved value   *)
(* is resolved once more, at "return" when its result is known.  A         *)
(* container frame is at "enter" between two elements and at "wait" while  *)
(* an element is resolved.  A template is `{{x}}` for a one-letter name x. *)
(***************************************************************************)
TplOf(name) == HStr(<<"{", "{", name, "}", "}">>)
\* a *Template whose source is `{{name}}`; its Options are tplOptions
HTemplate(name) == [k |-> "template", t |-> "", v |-> name]
\* the Options of the *Template before it is handed to the resolver
HandleOptions == [newOptions EXCEPT !.DisableContextFunctions = TRUE]
DeepPublic ==
    ("a" :> TplOf("a")) @@ ("b" :> TplOf("c")) @@ ("c" :> TplOf("b")) @@
    ("d" :> TplOf("e")) @@ ("e" :> HStr(<<"x">>)) @@ ("n" :> HInt(5)) @@
    ("u" :> HStr(<<"{", "{">>))
DeepContext ==
    [Context(FALSE, FALSE, FALSE, FALSE) EXCEPT !.Public = DeepPublic, !.DeepResolve = TRUE]
\* a []interface{} and a map[string]interface{} of the elements es
AnySlice(es) == HSlice([j \in DOMAIN es |-> HIface(es[j])])
AnyMap(m)    == HMap("string", [key \in DOMAIN m |-> HIface(m[key])])
\* the values handed to DeepResolver.Resolve
DeepInputs ==
    <<TplOf("a"), TplOf("b"), TplOf("d"), TplOf("e"), TplOf("n"), TplOf("u"), TplOf("z"),
      HStr(<<"x">>), HStr(<<"{", "{">>), HInt(5), Invalid,
      AnySlice(<<>>), AnySlice(<<HStr(<<"x">>), HInt(5)>>),
      AnySlice(<<HStr(<<"x">>), TplOf("e")>>),
      AnySlice(<<TplOf("n"), TplOf("u"), TplOf("e")>>),
      AnySlice(<<AnySlice(<<TplOf("d")>>), HTemplate("e")>>),
      AnyMap(("p" :> TplOf("n")) @@ ("q" :> HStr(<<"x">>))),
      AnyMap(("p" :> HInt(5)) @@ ("q" :> HStr(<<"x">>))),
      AnyMap(("p" :> TplOf("u")) @@ ("q" :> AnySlice(<<TplOf("e")>>))),
      HTemplate("e"), HTemplate("d"), HTemplate("z"), HTemplate("u")>>

\* strings.Contains(it, "{{") || strings.Contains(it, "{%")
HasDelimiters(it) ==
    \E i \in 1..(Len(it) - 1) : it[i] = "{" /\ it[i + 1] \in {"{", "%"}
\* ctx.template.set.FromString(it): the name of the variable of `{{x}}`, ""
\* for a string that does not parse
FromString(it) ==
    IF Len(it) = 5 /\ SubSeq(it, 1, 2) = <<"{", "{">> /\ SubSeq(it, 4, 5) = <<"}", "}">>
    THEN it[3] ELSE ""

ResolveStack(c) ==
    IF "_resolve_stack" \in DOMAIN c.Private THEN c.Private["_resolve_stack"] ELSE <<>>
stackPush(c, v) ==
    [c EXCEPT !.Private =
        ("_resolve_stack" :> Append(ResolveStack(c), StringBytes(v))) @@ c.Private]
\* what a mutation of stackPop that leaves the stack as it is would do
stackPopNothing(c) == c
stackPop(c) ==
    IF "_resolve_stack" \notin DOMAIN c.Private THEN c
    ELSE [c EXCEPT !.Private["_resolve_stack"] = SubSeq(@, 1, Len(@) - 1)]

\* an activation of fn on the value i; len0 is the length of the stack when
\* the function was entered, acc the elements a container has rebuilt
Frame(fn, i, len0) ==
    [fn |-> fn, i |-> i, at |-> "enter", len0 |-> len0, r |-> Invalid, modified |-> FALSE,
     err |-> FALSE, acc |-> <<>>, key |-> ""]
Top == res.frames[Len(res.frames)]
Returning(f, r, modified, err) ==
    [f EXCEPT !.at = "return", !.r = r, !.modified = modified, !.err = err]
\* the frames with the innermost one replaced by f
WithTop(f) == [res.frames EXCEPT ![Len(res.frames)] = f]
\* the frames after the innermost one, now f, has called fn on i
Calling(c, f, fn, i) == Append(WithTop(f), Frame(fn, i, Len(ResolveStack(c))))

InitDeep ==
    /\ TestIdle /\ FilterIdle
    /\ pc = [t \in Renders |-> "idle"]
    /\ tres = [t \in Renders |-> NoResult]
    /\ writes = {}
    /\ tplOptions = HandleOptions
    /\ parts = <<>> /\ parts0 = <<>>
    /\ ctx = DeepContext
    /\ res = [op |-> "none", in |-> Invalid, frames |-> <<>>, r |-> Invalid,
              modified |-> FALSE, err |-> FALSE]

\* DeepResolver.Resolve: the outermost call of resolveInterface
Resolve ==
    /\ res.op = "none"
    /\ \E n \in DOMAIN DeepInputs :
          /\ res' = [res EXCEPT !.op = "Resolve", !.in = DeepInputs[n],
                                !.frames = <<Frame("resolveInterface", DeepInputs[n],
                                                   Len(ResolveStack(ctx)))>>]
          /\ ctx' = stackPush(ctx, DeepInputs[n])
    /\ UNCHANGED <<parts, parts0>>
    /\ UNCHANGED <<renderVars, testVars, filterVars>>

\* tpl.Evaluate(ctx.Public) of the template `{{name}}` from the frame f:
\* the variable is looked up; resolve returns nil for an invalid value, else
\* calls resolveDeep; a nil result of a string's template is resolved again
evaluating(f, current, waiting) ==
    /\ Len(res.frames) < MaxDepth
    /\ IF ~IsValid(current) /\ waiting = "template"
       THEN /\ res' = [res EXCEPT !.frames = WithTop(Returning(f, Invalid, TRUE, FALSE))]
            /\ ctx' = ctx
       ELSE /\ res' = [res EXCEPT !.frames =
                          Calling(ctx, [f EXCEPT !.at = IF IsValid(current) THEN waiting
                                                        ELSE "again"],
                                  "resolveInterface", current)]
            /\ ctx' = stackPush(ctx, current)

\* resolveInterface from its entry to its first nested call or its return.
\* There is no test of the depth: a nested call is always made (the model
\* stops exploring at MaxDepth frames).
resolveInterface ==
    /\ res.op = "Resolve" /\ res.frames # <<>>
    /\ Top.fn = "resolveInterface" /\ Top.at = "enter"
    /\ CASE Top.i.k \in {"slice", "map"} ->
              \* return vr.resolveSlice(ctx, it) / vr.resolveMap(ctx, it)
              /\ Len(res.frames) < MaxDepth
              /\ res' = [res EXCEPT !.frames =
                            Calling(ctx, [Top EXCEPT !.at = "container"],
                                    IF Top.i.k = "slice" THEN "resolveSlice" ELSE "resolveMap",
                                    Top.i)]
              /\ ctx' = stackPush(ctx, Top.i)
              /\ UNCHANGED tplOptions
         [] Top.i.k = "template" ->
              \* it.Options.Update(..); it.Evaluate(ctx.Public)
              /\ tplOptions' = Update(tplOptions, deepOptions(ctx))
              /\ evaluating(Top, lookupInitialValue(ctx, Top.i.v), "template")
         [] Top.i.k = "string" /\ HasDelimiters(Top.i.v) /\ FromString(Top.i.v) = "" ->
              \* FromString fails: return nil, false, err
              /\ res' = [res EXCEPT !.frames = WithTop(Returning(Top, Invalid, FALSE, TRUE))]
              /\ UNCHANGED <<ctx, tplOptions>>
         [] Top.i.k = "string" /\ HasDelimiters(Top.i.v) /\ FromString(Top.i.v) # "" ->
              /\ evaluating(Top, lookupInitialValue(ctx, FromString(Top.i.v)), "evaluate")
              /\ UNCHANGED tplOptions
         [] OTHER ->
              \* default case, or a string without delimiters: return it, false, nil
              /\ res' = [res EXCEPT !.frames = WithTop(Returning(Top, Top.i, FALSE, FALSE))]
              /\ UNCHANGED <<ctx, tplOptions>>
    /\ UNCHANGED <<parts, parts0>>
    /\ UNCHANGED <<pc, tres, writes>>
    /\ UNCHANGED <<testVars, filterVars>>

\* the keys of the container frame f that are still to be resolved: the
\* next index of a slice, any remaining key of a map (range over a map)
Remaining(f) ==
    IF f.fn = "resolveSlice"
    THEN IF Len(f.acc) < Len(f.i.v) THEN {Len(f.acc) + 1} ELSE {}
    ELSE DOMAIN f.i.v \ DOMAIN f.acc
\* the container r that resolveSlice / resolveMap has made
Rebuilt(f) == IF f.fn = "resolveSlice" THEN HSlice(f.acc) ELSE HMap(f.i.t, f.acc)

\* resolveSlice / resolveMap: the loop, from one element to the next
resolveElements ==
    /\ res.op = "Resolve" /\ res.frames # <<>>
    /\ Top.fn \in {"resolveSlice", "resolveMap"} /\ Top.at = "enter"
    /\ IF Remaining(Top) = {}
       THEN /\ res' = [res EXCEPT !.frames =
                          WithTop(Returning(Top, Rebuilt(Top), Top.modified, FALSE))]
            /\ ctx' = ctx
       ELSE /\ Len(res.frames) < MaxDepth
            /\ \E key \in Remaining(Top) :
                  /\ res' = [res EXCEPT !.frames =
                                Calling(ctx, [Top EXCEPT !.at = "wait",
                                                         !.key = IF Top.fn = "resolveMap"
                                                                 THEN key ELSE ""],
                                        "resolveInterface", Top.i.v[key].v)]
                  /\ ctx' = stackPush(ctx, Top.i.v[key].v)
    /\ UNCHANGED <<parts, parts0>>
    /\ UNCHANGED <<renderVars, testVars, filterVars>>

\* what the caller does with the result f of the call it waited for
Resumed(caller, f) ==
    CASE caller.at = "wait" ->
           \* r[k] = newV; modified = modified || elementModified
           IF f.err THEN Returning(caller, Invalid, FALSE, TRUE)
           ELSE [caller EXCEPT !.at = "enter",
                               !.modified = caller.modified \/ f.modified,
                               !.acc = IF caller.fn = "resolveSlice"
                                       THEN Append(caller.acc, HIface(f.r))
                                       ELSE (caller.key :> HIface(f.r)) @@ caller.acc]
      [] caller.at = "container" -> Returning(caller, f.r, f.modified, f.err)
      [] caller.at = "template" ->
           IF f.err THEN Returning(caller, Invalid, FALSE, TRUE)
           ELSE Returning(caller, f.r, TRUE, FALSE)
      [] caller.at = "again" ->
           IF f.err THEN Returning(caller, Invalid, TRUE, TRUE)
           ELSE IF f.r.k = "string" /\ f.r = caller.i THEN Returning(caller, f.r, FALSE, FALSE)
           ELSE Returning(caller, f.r, TRUE, FALSE)
      [] OTHER ->
           \* at "evaluate": the template has been evaluated
           IF f.err THEN Returning(caller, Invalid, FALSE, TRUE)
           ELSE IF f.r.k = "string" /\ f.r = caller.i THEN Returning(caller, f.r, FALSE, FALSE)
           ELSE [caller EXCEPT !.at = "again"]

\* the innermost call returns (its deferred stackPop runs) and its caller
\* goes on; DeepResolver.Resolve returns its argument when nothing was
\* modified
resolveInterfaceReturn ==
    /\ res.op = "Resolve" /\ res.frames # <<>> /\ Top.at = "return"
    /\ IF Len(res.frames) = 1
       THEN /\ res' = [res EXCEPT !.op = "resolved", !.frames = <<>>,
                                  !.r = IF Top.err THEN Invalid
                                        ELSE IF Top.modified THEN Top.r ELSE Top.i,
                                  !.modified = Top.modified, !.err = Top.err]
            /\ ctx' = stackPop(ctx)
       ELSE IF Resumed(res.frames[Len(res.frames) - 1], Top).at = "again" /\ ~Top.err
                 /\ res.frames[Len(res.frames) - 1].at = "evaluate"
       THEN \* r, _, err := vr.resolveInterface(ctx, resolved)
            /\ res' = [res EXCEPT !.frames =
                          Append(Append(SubSeq(res.frames, 1, Len(res.frames) - 2),
                                        Resumed(res.frames[Len(res.frames) - 1], Top)),
                                 Frame("resolveInterface", Top.r,
                                       Len(ResolveStack(stackPop(ctx)))))]
            /\ ctx' = stackPush(stackPop(ctx), Top.r)
       ELSE /\ res' = [res EXCEPT !.frames =
                          Append(SubSeq(res.frames, 1, Len(res.frames) - 2),
                                 Resumed(res.frames[Len(res.frames) - 1], Top))]
            /\ ctx' = stackPop(ctx)
    /\ UNCHANGED <<parts, parts0>>
    /\ UNCHANGED <<renderVars, testVars, filterVars>>

NextDeep ==
    \/ Resolve
    \/ resolveInterface
    \/ resolveElements
    \/ resolveInterfaceReturn
SpecDeep == InitDeep /\ [][NextDeep]_vars

\* C17: deep resolution never nests resolveInterface deeper than the fixed
\* limit of 64 activations, whatever the context holds: a string that
\* refers to itself ends in an error or a value.
C17_DepthLimited ==
    res.op = "Resolve" => Len(res.frames) <= 64

\* C21: the resolve stack is balanced: every activation of resolveInterface,
\* resolveSlice and resolveMap finds at its return the stack as long as it
\* was at its entry, whether it returns a value or an error; the entries
\* are those of the activations in progress, in the order of the calls,
\* and stackPop never runs on an empty stack.
C21_StackBalanced ==
    /\ res.op = "Resolve" =>
          /\ Len(ResolveStack(ctx)) = Len(res.frames)
          /\ \A j \in DOMAIN res.frames :
                /\ res.frames[j].len0 = j - 1
                /\ ResolveStack(ctx)[j] = StringBytes(res.frames[j].i)
    /\ res.op = "resolved" => ResolveStack(ctx) = <<>>

\* a slice whose second element fails has been resolved: the error came up
\* through resolveInterface, resolveSlice and resolveInterface, and the
\* stack is empty again
C21_Witness ==
    /\ res.op = "resolved" /\ res.err
    /\ res.in = AnySlice(<<TplOf("n"), TplOf("u"), TplOf("e")>>)
    /\ "_resolve_stack" \in DOMAIN ctx.Private
    /\ ResolveStack(ctx) = <<>>

\* the container has the keys (the length) of the container it was made from
SameShape(a, b) ==
    /\ a.k = b.k
    /\ a.k \in {"slice", "map"} => DOMAIN a.v = DOMAIN b.v

\* C22: deep resolution leaves its input unchanged: it never writes to the
\* container or to the Template it was given; the result of a map or slice
\* is a container with the same keys or length; modified is true iff the
\* result differs from the input; Resolve returns the input itself when
\* nothing was modified.
C22_InputUnchanged ==
    /\ tplOptions = HandleOptions
    /\ (res.op = "resolved" /\ ~res.err) =>
          /\ res.in.k \in {"slice", "map"} => SameShape(res.r, res.in)
          /\ res.modified <=> res.r # res.in
          /\ ~res.modified => res.r = res.in

====
